---------------------------- MODULE Spec2Model ----------------------------
(***************************************************************************)
(* A model of the davbjor-chess rules engine (src/src/lib.rs,              *)
(* src/src/compute.rs, src/src/lookup.rs).                                 *)
(*                                                                         *)
(* A BitBoard (u64) is modelled as the set of the indices of its set bits, *)
(* a subset of 0..63: `a | b` is union, `a & b` is intersection, `a & !b`  *)
(* is set difference, `a << n` / `a >> n` move every index and drop the    *)
(* indices that leave 0..63, the way the 64-bit shift drops the bits.      *)
(* A ChessBoard is a record with the fields of the struct; every method    *)
(* is an operator taking `self` and returning the mutated `self`.          *)
(***************************************************************************)
EXTENDS Integers, Sequences, FiniteSets, TLC

VARIABLES chess,   \* the ChessBoard the caller holds
          call,    \* the last public call: operation, arguments, outcome
          prev,    \* the ChessBoard as it was when that call was made
          game,    \* which game is played: start position and caller inputs
          ncalls   \* number of calls that completed a move so far

vars == <<chess, call, prev, game, ncalls>>

-----------------------------------------------------------------------------
(* lookup.rs: tables *)

Bits == 0..63

Shl(bb, n) == {s + n : s \in {x \in bb : x + n <= 63}}

Shr(bb, n) == {s - n : s \in {x \in bb : x - n >= 0}}

MASK_RANK(r) == {s \in Bits : s \div 8 = r}

MASK_FILE(f) == {s \in Bits : s % 8 = f}

CLEAR_FILE(f) == Bits \ MASK_FILE(f)

\* PIECE has 64 entries: an index of 64 or more is out of bounds.
PIECE(i) == {i}

InBounds(i) == i \in Bits

-----------------------------------------------------------------------------
(* compute.rs: attack patterns *)

MOD67 == <<64, 0, 1, 39, 2, 15, 40, 23,
           3, 12, 16, 59, 41, 19, 24, 54,
           4, 64, 13, 10, 17, 62, 60, 28,
           42, 30, 20, 51, 25, 44, 55, 47,
           5, 32, 64, 38, 14, 22, 11, 58,
           18, 53, 63, 9, 61, 27, 29, 50,
           43, 46, 31, 37, 21, 57, 52, 8,
           26, 49, 45, 36, 56, 7, 48, 35,
           6, 34, 33>>

\* 2^k % 67 for k in 0..63, from 2^16 % 67 = 10
Pow2Mod67(k) == ((2 ^ (k % 16)) * (10 ^ (k \div 16))) % 67

RECURSIVE SumMod67(_)
SumMod67(bb) ==
    IF bb = {} THEN 0
    ELSE LET s == CHOOSE x \in bb : TRUE
         IN (Pow2Mod67(s) + SumMod67(bb \ {s})) % 67

\* bit % 67, then the table (MOD67 is 0-indexed in the source)
bit_scan(bit) == MOD67[SumMod67(bit) + 1]

bit_count(bit) == Cardinality(bit)

compute_king_attacks(king, own_pieces) ==
    LET king_clip_h == king \cap CLEAR_FILE(7)
        king_clip_a == king \cap CLEAR_FILE(0)
        spot_1 == Shl(king_clip_h, 7)
        spot_2 == Shl(king, 8)
        spot_3 == Shl(king_clip_h, 9)
        spot_4 == Shl(king_clip_h, 1)
        spot_5 == Shr(king_clip_a, 7)
        spot_6 == Shr(king, 8)
        spot_7 == Shr(king_clip_a, 9)
        spot_8 == Shr(king_clip_a, 1)
        king_moves == spot_1 \cup spot_2 \cup spot_3 \cup spot_4
                      \cup spot_5 \cup spot_6 \cup spot_7 \cup spot_8
    IN king_moves \ own_pieces

compute_knight_attacks(knight, own_pieces) ==
    LET clip_1 == (knight \cap CLEAR_FILE(0)) \cap CLEAR_FILE(1)
        clip_2 == knight \cap CLEAR_FILE(0)
        clip_3 == knight \cap CLEAR_FILE(7)
        clip_4 == (knight \cap CLEAR_FILE(7)) \cap CLEAR_FILE(6)
        clip_5 == (knight \cap CLEAR_FILE(7)) \cap CLEAR_FILE(6)
        clip_6 == knight \cap CLEAR_FILE(7)
        clip_7 == knight \cap CLEAR_FILE(0)
        clip_8 == (knight \cap CLEAR_FILE(0)) \cap CLEAR_FILE(1)
        spot_1 == Shl(clip_1, 6)
        spot_2 == Shl(clip_2, 15)
        spot_3 == Shl(clip_3, 17)
        spot_4 == Shl(clip_4, 10)
        spot_5 == Shr(clip_5, 6)
        spot_6 == Shr(clip_6, 15)
        spot_7 == Shr(clip_7, 17)
        spot_8 == Shr(clip_8, 10)
        knight_moves == spot_1 \cup spot_2 \cup spot_3 \cup spot_4
                        \cup spot_5 \cup spot_6 \cup spot_7 \cup spot_8
    IN knight_moves \ own_pieces

compute_white_pawn_attacks(white_pawn, black_pieces) ==
    LET spot_3 == Shl(white_pawn \cap CLEAR_FILE(0), 7) \cap black_pieces
        spot_4 == Shl(white_pawn \cap CLEAR_FILE(7), 9) \cap black_pieces
    IN spot_3 \cup spot_4

compute_white_pawn_moves(white_pawn, all_pieces, black_pieces) ==
    LET spot_1 == Shl(white_pawn, 8) \ all_pieces
        spot_2 == Shl(spot_1 \cap MASK_RANK(2), 8) \ all_pieces
        pawn_attacks == compute_white_pawn_attacks(white_pawn, black_pieces)
    IN spot_1 \cup spot_2 \cup pawn_attacks

\* a faulty compute_black_pawn_attacks: the two squares whether or not an enemy
\* piece stands there
compute_black_pawn_attacks_unmasked(black_pawn, white_pieces) ==
    Shr(black_pawn \cap CLEAR_FILE(0), 9) \cup Shr(black_pawn \cap CLEAR_FILE(7), 7)

compute_black_pawn_attacks(black_pawn, white_pieces) ==
    LET spot_3 == Shr(black_pawn \cap CLEAR_FILE(0), 9) \cap white_pieces
        spot_4 == Shr(black_pawn \cap CLEAR_FILE(7), 7) \cap white_pieces
    IN spot_3 \cup spot_4

compute_black_pawn_moves(black_pawn, all_pieces, white_pieces) ==
    LET spot_1 == Shr(black_pawn, 8) \ all_pieces
        spot_2 == Shr(spot_1 \cap MASK_RANK(5), 8) \ all_pieces
        pawn_attacks == compute_black_pawn_attacks(black_pawn, white_pieces)
    IN spot_1 \cup spot_2 \cup pawn_attacks

\* a..(b-1) as a sequence, and its reverse: the Rust ranges a..b and (a..b).rev()
Range(a, b) == [k \in 1..(IF b > a THEN b - a ELSE 0) |-> a + k - 1]

RevRange(a, b) == [k \in 1..(IF b > a THEN b - a ELSE 0) |-> b - k]

\* the squares r*8+f of rs.zip(fs), in iteration order
Zip(rs, fs) ==
    [k \in 1..(IF Len(rs) < Len(fs) THEN Len(rs) ELSE Len(fs)) |-> rs[k] * 8 + fs[k]]

\* a faulty loop: the first piece in the path is kept whatever its colour
RECURSIVE Walk_keeps_blocker(_, _, _, _)
Walk_keeps_blocker(ray, k, all_pieces, enemy_pieces) ==
    IF k > Len(ray) THEN {}
    ELSE IF ray[k] \in all_pieces
         THEN {ray[k]}
         ELSE {ray[k]} \cup Walk_keeps_blocker(ray, k + 1, all_pieces, enemy_pieces)

\* one `for` loop of compute_bishop_attacks / compute_rook_attacks, from its
\* k-th iteration on: stop at the first piece, keeping it when it is an enemy
RECURSIVE Walk(_, _, _, _)
Walk(ray, k, all_pieces, enemy_pieces) ==
    IF k > Len(ray) THEN {}
    ELSE IF ray[k] \in all_pieces
         THEN (IF ray[k] \in enemy_pieces THEN {ray[k]} ELSE {})
         ELSE {ray[k]} \cup Walk(ray, k + 1, all_pieces, enemy_pieces)

compute_bishop_attacks(bishop, all_pieces, enemy_pieces) ==
    LET square == bit_scan(bishop)
        tr == square \div 8
        tf == square % 8
    IN Walk(Zip(Range(tr + 1, 8), Range(tf + 1, 8)), 1, all_pieces, enemy_pieces)
       \cup Walk(Zip(Range(tr + 1, 8), RevRange(0, tf)), 1, all_pieces, enemy_pieces)
       \cup Walk(Zip(RevRange(0, tr), RevRange(0, tf)), 1, all_pieces, enemy_pieces)
       \cup Walk(Zip(RevRange(0, tr), Range(tf + 1, 8)), 1, all_pieces, enemy_pieces)

compute_rook_attacks(rook, all_pieces, enemy_pieces) ==
    LET square == bit_scan(rook)
        tr == square \div 8
        tf == square % 8
        Up == [k \in 1..Len(Range(tr + 1, 8)) |-> Range(tr + 1, 8)[k] * 8 + tf]
        Down == [k \in 1..Len(RevRange(0, tr)) |-> RevRange(0, tr)[k] * 8 + tf]
        Right == [k \in 1..Len(Range(tf + 1, 8)) |-> tr * 8 + Range(tf + 1, 8)[k]]
        Left == [k \in 1..Len(RevRange(0, tf)) |-> tr * 8 + RevRange(0, tf)[k]]
    IN Walk(Up, 1, all_pieces, enemy_pieces)
       \cup Walk(Down, 1, all_pieces, enemy_pieces)
       \cup Walk(Right, 1, all_pieces, enemy_pieces)
       \cup Walk(Left, 1, all_pieces, enemy_pieces)

-----------------------------------------------------------------------------
(* lib.rs: PieceType, GameResult, ChessBoard *)

WhitePieceTypes == {"WhitePawn", "WhiteKnight", "WhiteBishop", "WhiteRook",
                    "WhiteQueen", "WhiteKing"}

BlackPieceTypes == {"BlackPawn", "BlackKnight", "BlackBishop", "BlackRook",
                    "BlackQueen", "BlackKing"}

PieceType == WhitePieceTypes \cup BlackPieceTypes \cup {"Empty"}

is_white(piece_type) == piece_type \in WhitePieceTypes

is_king(piece_type) == piece_type \in {"WhiteKing", "BlackKing"}

is_pawn(piece_type) == piece_type \in {"WhitePawn", "BlackPawn"}

GameResult == {"Ongoing", "White", "Draw", "Black"}

\* Option<BitBoard>
None == <<>>

Some(b) == <<b>>

unwrap_or(o, d) == IF o = <<>> THEN d ELSE o[1]

piece_at(self, position) ==
    LET square == PIECE(position)
    IN IF self.all_pieces \cap square = {} THEN "Empty"
       ELSE IF self.white_pawns \cap square # {} THEN "WhitePawn"
       ELSE IF self.black_pawns \cap square # {} THEN "BlackPawn"
       ELSE IF self.white_knights \cap square # {} THEN "WhiteKnight"
       ELSE IF self.black_knights \cap square # {} THEN "BlackKnight"
       ELSE IF self.white_bishops \cap square # {} THEN "WhiteBishop"
       ELSE IF self.black_bishops \cap square # {} THEN "BlackBishop"
       ELSE IF self.white_rooks \cap square # {} THEN "WhiteRook"
       ELSE IF self.black_rooks \cap square # {} THEN "BlackRook"
       ELSE IF self.white_queens \cap square # {} THEN "WhiteQueen"
       ELSE IF self.black_queens \cap square # {} THEN "BlackQueen"
       ELSE IF self.white_kings \cap square # {} THEN "WhiteKing"
       ELSE IF self.black_kings \cap square # {} THEN "BlackKing"
       ELSE "Empty"

compute_white_attacks(self, black_pieces_option, white_pieces_option) ==
    LET black_pieces == unwrap_or(black_pieces_option, self.black_pieces)
        white_pieces == unwrap_or(white_pieces_option, self.white_pieces)
        all_pieces == black_pieces \cup white_pieces
    IN compute_white_pawn_attacks(white_pieces \cap self.white_pawns,
                                  black_pieces \cup self.en_passant_square)
       \cup compute_knight_attacks(white_pieces \cap self.white_knights, self.white_pieces)
       \cup compute_king_attacks(white_pieces \cap self.white_kings, white_pieces)
       \cup UNION {compute_bishop_attacks(PIECE(i), all_pieces, black_pieces) :
                       i \in (white_pieces \cap self.white_bishops)}
       \cup UNION {compute_rook_attacks(PIECE(i), all_pieces, black_pieces) :
                       i \in (white_pieces \cap self.white_rooks)}
       \cup UNION {compute_bishop_attacks(PIECE(i), all_pieces, black_pieces)
                   \cup compute_rook_attacks(PIECE(i), all_pieces, black_pieces) :
                       i \in (white_pieces \cap self.white_queens)}

compute_black_attacks(self, black_pieces_option, white_pieces_option) ==
    LET black_pieces == unwrap_or(black_pieces_option, self.black_pieces)
        white_pieces == unwrap_or(white_pieces_option, self.white_pieces)
        all_pieces == black_pieces \cup white_pieces
    IN compute_black_pawn_attacks(black_pieces \cap self.black_pawns, white_pieces)
       \cup compute_knight_attacks(black_pieces \cap self.black_knights, black_pieces)
       \cup compute_king_attacks(black_pieces \cap self.black_kings, black_pieces)
       \cup UNION {compute_bishop_attacks(PIECE(i), all_pieces, white_pieces) :
                       i \in (black_pieces \cap self.black_bishops)}
       \cup UNION {compute_rook_attacks(PIECE(i), all_pieces, white_pieces) :
                       i \in (black_pieces \cap self.black_rooks)}
       \cup UNION {compute_bishop_attacks(PIECE(i), all_pieces, white_pieces)
                   \cup compute_rook_attacks(PIECE(i), all_pieces, white_pieces) :
                       i \in (black_pieces \cap self.black_queens)}

white_in_check(self, black_attacks_option, white_kings_option) ==
    LET white_kings == unwrap_or(white_kings_option, self.white_kings)
        black_attacks == unwrap_or(black_attacks_option,
                                   compute_black_attacks(self, None, None))
    IN white_kings \cap black_attacks # {}

black_in_check(self, white_attacks_option, black_kings_option) ==
    LET black_kings == unwrap_or(black_kings_option, self.black_kings)
        white_attacks == unwrap_or(white_attacks_option,
                                   compute_white_attacks(self, None, None))
    IN black_kings \cap white_attacks # {}

\* get_moves, the match on piece_type: the pseudo-legal destinations
raw_moves(self, position) ==
    LET square == PIECE(position)
        piece_type == piece_at(self, position)
    IN CASE piece_type = "WhiteKing" -> compute_king_attacks(square, self.white_pieces)
         [] piece_type = "WhiteQueen" ->
                compute_rook_attacks(square, self.all_pieces, self.black_pieces)
                \cup compute_bishop_attacks(square, self.all_pieces, self.black_pieces)
         [] piece_type = "WhiteRook" ->
                compute_rook_attacks(square, self.all_pieces, self.black_pieces)
         [] piece_type = "WhiteBishop" ->
                compute_bishop_attacks(square, self.all_pieces, self.black_pieces)
         [] piece_type = "WhiteKnight" -> compute_knight_attacks(square, self.white_pieces)
         [] piece_type = "WhitePawn" ->
                compute_white_pawn_moves(square, self.all_pieces,
                                         self.black_pieces \cup self.en_passant_square)
         [] piece_type = "BlackKing" -> compute_king_attacks(square, self.black_pieces)
         [] piece_type = "BlackQueen" ->
                compute_rook_attacks(square, self.all_pieces, self.white_pieces)
                \cup compute_bishop_attacks(square, self.all_pieces, self.white_pieces)
         [] piece_type = "BlackRook" ->
                compute_rook_attacks(square, self.all_pieces, self.white_pieces)
         [] piece_type = "BlackBishop" ->
                compute_bishop_attacks(square, self.all_pieces, self.white_pieces)
         [] piece_type = "BlackKnight" -> compute_knight_attacks(square, self.black_pieces)
         [] piece_type = "BlackPawn" ->
                compute_black_pawn_moves(square, self.all_pieces,
                                         self.white_pieces \cup self.en_passant_square)
         [] OTHER -> {}

\* get_moves, lines 726-764: does moving a piece that is not a king to i
\* leave the own king attacked
piece_move_in_check(self, position, i) ==
    IF is_white(piece_at(self, position))
    THEN white_in_check(self,
            Some(compute_black_attacks(self,
                    Some(IF piece_at(self, position) = "WhitePawn"
                            /\ PIECE(i) = self.en_passant_square
                         THEN (self.black_pieces \ PIECE(i)) \ PIECE(i - 8)
                         ELSE self.black_pieces \ PIECE(i)),
                    Some((self.white_pieces \ PIECE(position)) \cup PIECE(i)))),
            None)
    ELSE black_in_check(self,
            Some(compute_white_attacks(self,
                    Some((self.black_pieces \ PIECE(position)) \cup PIECE(i)),
                    Some(IF piece_at(self, position) = "WhitePawn"
                            /\ PIECE(i) = self.en_passant_square
                         THEN (self.white_pieces \ PIECE(i)) \ PIECE(i + 8)
                         ELSE self.white_pieces \ PIECE(i)))),
            None)

\* get_moves, lines 767-788: does moving the king to i leave it attacked
king_move_in_check(self, position, i) ==
    IF is_white(piece_at(self, position))
    THEN white_in_check(self,
            Some(compute_black_attacks(self,
                    Some(self.black_pieces \ PIECE(i)),
                    Some((self.white_pieces \ PIECE(position)) \cup PIECE(i)))),
            Some(PIECE(i)))
    ELSE black_in_check(self,
            Some(compute_white_attacks(self,
                    Some((self.black_pieces \ PIECE(position)) \cup PIECE(i)),
                    Some(self.white_pieces))),
            Some(PIECE(i)))

\* get_moves, lines 790-857: is the king of `position` attacked once it stands on sq
white_castle_square_in_check(self, position, sq) ==
    white_in_check(self,
        Some(compute_black_attacks(self,
                Some(self.black_pieces),
                Some((self.white_pieces \ PIECE(position)) \cup PIECE(sq)))),
        Some(PIECE(sq)))

black_castle_square_in_check(self, position, sq) ==
    black_in_check(self,
        Some(compute_white_attacks(self,
                Some((self.black_pieces \ PIECE(position)) \cup PIECE(sq)),
                Some(self.white_pieces))),
        Some(PIECE(sq)))

\* one castling of white: the right, the squares that must be empty, the square
\* the king crosses and the square it lands on
white_castling(self, position, right, empty, cross, land) ==
    IF self.castling_rights[right]
       /\ self.all_pieces \cap empty = {}
       /\ ~white_in_check(self, None, None)
       /\ \A sq \in {cross, land} : ~white_castle_square_in_check(self, position, sq)
    THEN PIECE(land) ELSE {}

black_castling(self, position, right, empty, cross, land) ==
    IF self.castling_rights[right]
       /\ self.all_pieces \cap empty = {}
       /\ ~black_in_check(self, None, None)
       /\ \A sq \in {cross, land} : ~black_castle_square_in_check(self, position, sq)
    THEN PIECE(land) ELSE {}

castling_moves(self, position) ==
    IF is_white(piece_at(self, position))
    THEN UNION {white_castling(self, position, c[1], c[2], c[3], c[4]) :
                    c \in {<<1, PIECE(5) \cup PIECE(6), 5, 6>>,
                           <<2, PIECE(3) \cup PIECE(2) \cup PIECE(1), 3, 2>>}}
    ELSE UNION {black_castling(self, position, c[1], c[2], c[3], c[4]) :
                    c \in {<<3, PIECE(8*7+5) \cup PIECE(8*7+6), 8*7+5, 8*7+6>>,
                           <<4, PIECE(8*7+3) \cup PIECE(8*7+2) \cup PIECE(8*7+1),
                             8*7+3, 8*7+2>>}}

get_moves(self, position) ==
    LET piece_type == piece_at(self, position)
        moves == raw_moves(self, position)
    IN IF ~is_king(piece_type)
       THEN {i \in moves : ~piece_move_in_check(self, position, i)}
       ELSE {i \in moves : ~king_move_in_check(self, position, i)}
            \cup castling_moves(self, position)

get_moves_list(self, position) ==
    IF position > 63 THEN {}
    ELSE LET piece_type == piece_at(self, position)
         IN IF self.whites_turn /\ ~is_white(piece_type) THEN {}
            ELSE IF ~self.whites_turn /\ is_white(piece_type) THEN {}
            ELSE get_moves(self, position)

white_in_checkmate(self) ==
    IF ~white_in_check(self, None, None) THEN FALSE
    ELSE \A i \in self.white_pieces : get_moves(self, i) = {}

black_in_checkmate(self) ==
    IF ~black_in_check(self, None, None) THEN FALSE
    ELSE \A i \in self.black_pieces : get_moves(self, i) = {}

\* Result<bool, String>::is_ok()
white_in_stalemate(self) ==
    IF ~self.whites_turn THEN FALSE
    ELSE IF white_in_check(self, None, None) THEN FALSE
    ELSE \A i \in self.white_pieces : get_moves(self, i) = {}

black_in_stalemate(self) ==
    IF self.whites_turn THEN FALSE
    ELSE IF black_in_check(self, None, None) THEN FALSE
    ELSE \A i \in self.black_pieces : get_moves(self, i) = {}

\* the sum over the squares of the side to move of bit_count(moves), the moves
\* of a pawn onto its last rank counted three more times
count_moves(self) ==
    LET own_pieces == IF self.whites_turn THEN self.white_pieces ELSE self.black_pieces
        counted == UNION {{<<i, m>> : m \in get_moves(self, i)} : i \in own_pieces}
        last_rank(i) == IF piece_at(self, i) = "WhitePawn" /\ i \div 8 = 6
                        THEN MASK_RANK(7)
                        ELSE IF piece_at(self, i) = "BlackPawn" /\ i \div 8 = 1
                        THEN MASK_RANK(0)
                        ELSE {}
    IN bit_count(counted)
       + bit_count({im \in counted : im[2] \in last_rank(im[1])}) * 3

-----------------------------------------------------------------------------
(* lib.rs: the mutators *)

\* a faulty update_board_after_move: only PIECE[from] is cleared, so a captured
\* piece stays on its board
update_board_after_move_keeps_captured(self, piece_type, from, to) ==
    LET put(name) == IF piece_type = name THEN PIECE(to) ELSE {}
    IN [self EXCEPT
          !.white_pawns   = (@ \ PIECE(from)) \cup put("WhitePawn"),
          !.white_knights = (@ \ PIECE(from)) \cup put("WhiteKnight"),
          !.white_bishops = (@ \ PIECE(from)) \cup put("WhiteBishop"),
          !.white_rooks   = (@ \ PIECE(from)) \cup put("WhiteRook"),
          !.white_queens  = (@ \ PIECE(from)) \cup put("WhiteQueen"),
          !.white_kings   = (@ \ PIECE(from)) \cup put("WhiteKing"),
          !.black_pawns   = (@ \ PIECE(from)) \cup put("BlackPawn"),
          !.black_knights = (@ \ PIECE(from)) \cup put("BlackKnight"),
          !.black_bishops = (@ \ PIECE(from)) \cup put("BlackBishop"),
          !.black_rooks   = (@ \ PIECE(from)) \cup put("BlackRook"),
          !.black_queens  = (@ \ PIECE(from)) \cup put("BlackQueen"),
          !.black_kings   = (@ \ PIECE(from)) \cup put("BlackKing")]

\* the twelve `&= !PIECE[to] & !PIECE[from]` and the match that sets PIECE[to]
update_board_after_move(self, piece_type, from, to) ==
    LET gone == PIECE(to) \cup PIECE(from)
        put(name) == IF piece_type = name THEN PIECE(to) ELSE {}
    IN [self EXCEPT
          !.white_pawns   = (@ \ gone) \cup put("WhitePawn"),
          !.white_knights = (@ \ gone) \cup put("WhiteKnight"),
          !.white_bishops = (@ \ gone) \cup put("WhiteBishop"),
          !.white_rooks   = (@ \ gone) \cup put("WhiteRook"),
          !.white_queens  = (@ \ gone) \cup put("WhiteQueen"),
          !.white_kings   = (@ \ gone) \cup put("WhiteKing"),
          !.black_pawns   = (@ \ gone) \cup put("BlackPawn"),
          !.black_knights = (@ \ gone) \cup put("BlackKnight"),
          !.black_bishops = (@ \ gone) \cup put("BlackBishop"),
          !.black_rooks   = (@ \ gone) \cup put("BlackRook"),
          !.black_queens  = (@ \ gone) \cup put("BlackQueen"),
          !.black_kings   = (@ \ gone) \cup put("BlackKing")]

\* update_board, lines 1400-1402
update_derived(self) ==
    LET white == self.white_pawns \cup self.white_knights \cup self.white_bishops
                 \cup self.white_rooks \cup self.white_queens \cup self.white_kings
        black == self.black_pawns \cup self.black_knights \cup self.black_bishops
                 \cup self.black_rooks \cup self.black_queens \cup self.black_kings
    IN [self EXCEPT !.white_pieces = white,
                    !.black_pieces = black,
                    !.all_pieces = white \cup black]

\* update_board, lines 1404-1417: four tests in order on the same boards, each
\* overwriting game_result when it holds, so the last one that holds decides
update_result(self) ==
    [self EXCEPT !.game_result =
        IF white_in_stalemate(self) THEN "Draw"
        ELSE IF black_in_stalemate(self) THEN "Draw"
        ELSE IF white_in_checkmate(self) THEN "Black"
        ELSE IF black_in_checkmate(self) THEN "White"
        ELSE @]

\* update_board, lines 1419-1424: the mailbox copy of the bitboards
copy_board(self) ==
    [self EXCEPT !.board = [i \in Bits |->
                              IF self.all_pieces \cap PIECE(i) # {}
                              THEN piece_at(self, i) ELSE "Empty"]]

update_board(self) == copy_board(update_result(update_derived(self)))

\* the snapshot store_position pushes
snapshot(self) ==
    LET castling == (IF self.castling_rights[1] THEN {1} ELSE {})
                    \cup (IF self.castling_rights[2] THEN {2} ELSE {})
                    \cup (IF self.castling_rights[3] THEN {3} ELSE {})
                    \cup (IF self.castling_rights[4] THEN {4} ELSE {})
        en_passant_possible ==
            IF self.en_passant_square
               \cap (compute_white_pawn_attacks(self.white_pawns, self.en_passant_square)
                     \cup compute_black_pawn_attacks(self.black_pawns, self.en_passant_square))
               # {}
            THEN {0} ELSE {}
    IN <<self.white_pawns, self.white_knights, self.white_bishops,
         self.white_rooks, self.white_queens, self.white_kings,
         self.black_pawns, self.black_knights, self.black_bishops,
         self.black_rooks, self.black_queens, self.black_kings,
         en_passant_possible, castling>>

store_position(self) ==
    [self EXCEPT !.positions = Append(@, snapshot(self))]

is_three_fold_repetition(self) ==
    LET n == Len(self.positions)
        current == self.positions[n]
        repetitions == 1 + Cardinality({i \in 1..(n - 1) :
                               \A j \in 1..Len(self.positions[i]) :
                                   self.positions[i][j] = current[j]})
    IN repetitions >= 3

\* move_piece, lines 1037-1057: the rook's part of a castling move
move_castling_rook(self, piece_type, to) ==
    IF piece_type = "WhiteKing" /\ self.castling_rights[1] /\ to = 6
    THEN update_board_after_move(self, "WhiteRook", 7, 5)
    ELSE IF piece_type = "WhiteKing" /\ self.castling_rights[2] /\ to = 2
    THEN update_board_after_move(self, "WhiteRook", 0, 3)
    ELSE IF piece_type = "BlackKing" /\ self.castling_rights[3] /\ to = 8*7+6
    THEN update_board_after_move(self, "BlackRook", 8*7+7, 8*7+5)
    ELSE IF piece_type = "BlackKing" /\ self.castling_rights[4] /\ to = 8*7+2
    THEN update_board_after_move(self, "BlackRook", 8*7+0, 8*7+3)
    ELSE self

\* move_piece, lines 1059-1065: the move is an en passant capture
is_en_passant_move(self, piece_type, to) ==
    \/ piece_type = "WhitePawn" /\ PIECE(to) = self.en_passant_square
    \/ piece_type = "BlackPawn" /\ PIECE(to) = self.en_passant_square

\* a faulty next_en_passant_square: the rank the pawn arrives on is not tested
next_en_passant_square_any_advance(piece_type, from, to) ==
    IF piece_type = "BlackPawn" /\ from \div 8 = 6
    THEN PIECE(from - 8)
    ELSE IF piece_type = "WhitePawn" /\ from \div 8 = 1
    THEN PIECE(from + 8)
    ELSE {}

\* move_piece, lines 1067-1074
next_en_passant_square(piece_type, from, to) ==
    IF piece_type = "BlackPawn" /\ from \div 8 = 6 /\ to \div 8 = 4
    THEN PIECE(from - 8)
    ELSE IF piece_type = "WhitePawn" /\ from \div 8 = 1 /\ to \div 8 = 3
    THEN PIECE(from + 8)
    ELSE {}

\* a faulty next_halfmove_clock: a capture does not reset the clock
next_halfmove_clock_pawn_only(self, piece_type, capture) ==
    IF is_pawn(piece_type) THEN 0 ELSE self.halfmove_clock + 1

\* move_piece, lines 1076-1080
next_halfmove_clock(self, piece_type, capture) ==
    IF is_pawn(piece_type) \/ capture THEN 0 ELSE self.halfmove_clock + 1

\* move_piece, lines 1082-1085
next_fullmove(self) ==
    IF self.whites_turn = FALSE THEN self.fullmove + 1 ELSE self.fullmove

\* a faulty next_castling_rights: a king move sets the rights of its side
next_castling_rights_king_sets(self, piece_type, from) ==
    IF piece_type = "WhiteKing"
    THEN <<TRUE, TRUE, self.castling_rights[3], self.castling_rights[4]>>
    ELSE IF piece_type = "BlackKing"
    THEN <<self.castling_rights[1], self.castling_rights[2], TRUE, TRUE>>
    ELSE self.castling_rights

\* move_piece, lines 1087-1099
next_castling_rights(self, piece_type, from) ==
    LET c1 == IF piece_type = "WhiteKing"
              THEN <<FALSE, FALSE, self.castling_rights[3], self.castling_rights[4]>>
              ELSE self.castling_rights
        c2 == IF piece_type = "BlackKing"
              THEN <<c1[1], c1[2], FALSE, FALSE>> ELSE c1
        c3 == IF from = 7 THEN [c2 EXCEPT ![1] = FALSE] ELSE c2
        c4 == IF from = 0 THEN [c3 EXCEPT ![2] = FALSE] ELSE c3
        c5 == IF from = 63 THEN [c4 EXCEPT ![1] = FALSE] ELSE c4
        c6 == IF from = 56 THEN [c5 EXCEPT ![2] = FALSE] ELSE c5
    IN c6

is_promotion_move(piece_type, to) ==
    \/ piece_type = "WhitePawn" /\ to \div 8 = 7
    \/ piece_type = "BlackPawn" /\ to \div 8 = 0

\* a faulty declare_draws: the clock has to pass 100
declare_draws_past_hundred(self) ==
    LET r1 == IF is_three_fold_repetition(self) THEN "Draw" ELSE self.game_result
        r2 == IF r1 = "Ongoing" /\ self.halfmove_clock > 100 THEN "Draw" ELSE r1
    IN [self EXCEPT !.game_result = r2]

\* move_piece, lines 1117-1123: the draws by repetition and by the clock
declare_draws(self) ==
    LET r1 == IF is_three_fold_repetition(self) THEN "Draw" ELSE self.game_result
        r2 == IF r1 = "Ongoing" /\ self.halfmove_clock >= 100 THEN "Draw" ELSE r1
    IN [self EXCEPT !.game_result = r2]

\* move_piece, lines 1125-1128
change_turn(self) ==
    [self EXCEPT !.whites_turn = ~@, !.promotion_piece = "Empty"]

\* a faulty detect_check: the king of the side that just moved is tested
detect_check_of_mover(self) ==
    [self EXCEPT !.player_in_check =
        \/ ~self.whites_turn /\ white_in_check(self, None, None)
        \/ self.whites_turn /\ black_in_check(self, None, None)]

\* move_piece, lines 1130-1137
detect_check(self) ==
    [self EXCEPT !.player_in_check =
        \/ self.whites_turn /\ white_in_check(self, None, None)
        \/ ~self.whites_turn /\ black_in_check(self, None, None)]

\* move_piece, lines 1112-1139: after the boards and counters are updated
finish_move(self) ==
    detect_check(change_turn(declare_draws(store_position(update_board(self)))))

\* move_piece, lines 1067-1099: the target, the clocks and the rights
update_counters(self, piece_type, from, to, capture) ==
    [self EXCEPT
       !.en_passant_square = next_en_passant_square(piece_type, from, to),
       !.halfmove_clock = next_halfmove_clock(self, piece_type, capture),
       !.fullmove = next_fullmove(self),
       !.castling_rights = next_castling_rights(self, piece_type, from)]

\* a faulty promotion: the move is finished with the pawn left on the last rank
promote_and_finish_keeps_pawn(self, piece_type, to) ==
    IF is_promotion_move(piece_type, to) /\ self.promotion_piece = "Empty"
    THEN [self |-> self, ret |-> "Ok_false"]
    ELSE [self |-> finish_move(self), ret |-> "Ok_true"]

\* move_piece, lines 1101-1139: the promotion and the rest of the move
promote_and_finish(self, piece_type, to) ==
    IF is_promotion_move(piece_type, to) /\ self.promotion_piece = "Empty"
    THEN [self |-> self, ret |-> "Ok_false"]
    ELSE [self |-> finish_move(
                     IF is_promotion_move(piece_type, to)
                     THEN update_board_after_move(self, self.promotion_piece, to, to)
                     ELSE self),
          ret |-> "Ok_true"]

\* move_piece, lines 1035-1065: the piece, the castling rook, and the en passant
\* capture, whose update_board_after_move(.., 64) indexes PIECE[64]: out of bounds
move_on_boards(self, piece_type, from, to) ==
    move_castling_rook(update_board_after_move(self, piece_type, from, to),
                       piece_type, to)

\* move_piece, lines 1030-1139: the move is accepted; apply it
apply_move(self, piece_type, from, to) ==
    IF is_en_passant_move(self, piece_type, to)
    THEN [self |-> move_on_boards(self, piece_type, from, to), ret |-> "Panic"]
    ELSE promote_and_finish(
            update_counters(move_on_boards(self, piece_type, from, to),
                            piece_type, from, to,
                            self.all_pieces \cap PIECE(to) # {}),
            piece_type, to)

\* a faulty check_move: the piece is moved on the boards before the turn is tested
check_move_moves_first(self, from, to, moves) ==
    IF moves = {} THEN [self |-> self, ret |-> "Err"]
    ELSE IF ~InBounds(to) THEN [self |-> self, ret |-> "Panic"]
    ELSE IF moves \cap PIECE(to) = {} THEN [self |-> self, ret |-> "Err"]
    ELSE IF self.whites_turn /\ ~is_white(piece_at(self, from))
         THEN [self |-> move_on_boards(self, piece_at(self, from), from, to),
               ret |-> "Err"]
    ELSE IF ~self.whites_turn /\ is_white(piece_at(self, from))
         THEN [self |-> move_on_boards(self, piece_at(self, from), from, to),
               ret |-> "Err"]
    ELSE apply_move(self, piece_at(self, from), from, to)

\* move_piece, lines 1016-1028: the tests on the squares, given get_moves(from)
check_move(self, from, to, moves) ==
    IF moves = {} THEN [self |-> self, ret |-> "Err"]
    ELSE IF ~InBounds(to) THEN [self |-> self, ret |-> "Panic"]
    ELSE IF moves \cap PIECE(to) = {} THEN [self |-> self, ret |-> "Err"]
    ELSE IF self.whites_turn /\ ~is_white(piece_at(self, from))
         THEN [self |-> self, ret |-> "Err"]
    ELSE IF ~self.whites_turn /\ is_white(piece_at(self, from))
         THEN [self |-> self, ret |-> "Err"]
    ELSE apply_move(self, piece_at(self, from), from, to)

\* move_piece, lines 1016-1139: the game is not finished
move_ongoing(self, from, to) ==
    IF ~InBounds(from) THEN [self |-> self, ret |-> "Panic"]
    ELSE IF self.all_pieces \cap PIECE(from) = {} THEN [self |-> self, ret |-> "Err"]
    ELSE check_move(self, from, to, get_moves(self, from))

\* a faulty move_piece: game_result is not looked at
move_piece_unguarded(self, from, to) == move_ongoing(self, from, to)

move_piece(self, from, to) ==
    IF self.game_result # "Ongoing" THEN [self |-> self, ret |-> "Err"]
    ELSE move_ongoing(self, from, to)

\* handle_promotion, lines 963-970: promotion_piece is already set
promote_with(self, from, to, piece_type) ==
    IF is_king(piece_type) \/ is_pawn(piece_type) THEN [self |-> self, ret |-> "Err"]
    ELSE IF (self.whites_turn /\ ~is_white(piece_type))
            \/ (~self.whites_turn /\ is_white(piece_type))
         THEN [self |-> self, ret |-> "Err"]
    ELSE move_piece(self, from, to)

handle_promotion(self, from, to, piece_type) ==
    promote_with([self EXCEPT !.promotion_piece = piece_type], from, to, piece_type)

white_surrender(self) == [self EXCEPT !.game_result = "Black"]

black_surrender(self) == [self EXCEPT !.game_result = "White"]

mutual_draw(self) == [self EXCEPT !.game_result = "Draw"]

-----------------------------------------------------------------------------
(* lib.rs: new, clear, load *)

Default ==
    [white_pawns |-> {}, white_knights |-> {}, white_bishops |-> {},
     white_rooks |-> {}, white_queens |-> {}, white_kings |-> {},
     black_pawns |-> {}, black_knights |-> {}, black_bishops |-> {},
     black_rooks |-> {}, black_queens |-> {}, black_kings |-> {},
     white_pieces |-> {}, black_pieces |-> {}, all_pieces |-> {},
     whites_turn |-> TRUE,
     game_result |-> "Ongoing",
     castling_rights |-> <<TRUE, TRUE, TRUE, TRUE>>,
     halfmove_clock |-> 0,
     fullmove |-> 1,
     player_in_check |-> FALSE,
     board |-> [i \in Bits |-> "Empty"],
     promotion_piece |-> "Empty",
     en_passant_square |-> {},
     positions |-> <<>>]

BackRank == <<"Rook", "Knight", "Bishop", "Queen", "King", "Bishop", "Knight", "Rook">>

new ==
    [Default EXCEPT
       !.white_pawns = MASK_RANK(1),
       !.white_knights = PIECE(1) \cup PIECE(6),
       !.white_bishops = PIECE(2) \cup PIECE(5),
       !.white_rooks = PIECE(0) \cup PIECE(7),
       !.white_queens = PIECE(3),
       !.white_kings = PIECE(4),
       !.black_pawns = MASK_RANK(6),
       !.black_knights = PIECE(7*8+1) \cup PIECE(7*8+6),
       !.black_bishops = PIECE(7*8+2) \cup PIECE(7*8+5),
       !.black_rooks = PIECE(7*8+0) \cup PIECE(7*8+7),
       !.black_queens = PIECE(7*8+3),
       !.black_kings = PIECE(7*8+4),
       !.white_pieces = MASK_RANK(0) \cup MASK_RANK(1),
       !.black_pieces = MASK_RANK(6) \cup MASK_RANK(7),
       !.all_pieces = MASK_RANK(0) \cup MASK_RANK(1) \cup MASK_RANK(6) \cup MASK_RANK(7),
       !.board = [i \in Bits |->
                    IF i \div 8 = 0 THEN "White" \o BackRank[(i % 8) + 1]
                    ELSE IF i \div 8 = 1 THEN "WhitePawn"
                    ELSE IF i \div 8 = 6 THEN "BlackPawn"
                    ELSE IF i \div 8 = 7 THEN "Black" \o BackRank[(i % 8) + 1]
                    ELSE "Empty"]]

\* clear leaves promotion_piece as it is
clear(self) == [Default EXCEPT !.promotion_piece = self.promotion_piece]

SquareNames == <<"A1", "B1", "C1", "D1", "E1", "F1", "G1", "H1",
                "A2", "B2", "C2", "D2", "E2", "F2", "G2", "H2",
                "A3", "B3", "C3", "D3", "E3", "F3", "G3", "H3",
                "A4", "B4", "C4", "D4", "E4", "F4", "G4", "H4",
                "A5", "B5", "C5", "D5", "E5", "F5", "G5", "H5",
                "A6", "B6", "C6", "D6", "E6", "F6", "G6", "H6",
                "A7", "B7", "C7", "D7", "E7", "F7", "G7", "H7",
                "A8", "B8", "C8", "D8", "E8", "F8", "G8", "H8">>

\* lookup.rs string_to_square, on the upper-cased text
string_to_square(x) ==
    IF \E i \in 1..64 : SquareNames[i] = x
    THEN (CHOOSE i \in 1..64 : SquareNames[i] = x) - 1
    ELSE 64

PieceLetters == {"p", "n", "b", "r", "q", "k", "P", "N", "B", "R", "Q", "K"}

DigitValue == [d \in {"1", "2", "3", "4", "5", "6", "7", "8"} |->
                 CASE d = "1" -> 1 [] d = "2" -> 2 [] d = "3" -> 3 [] d = "4" -> 4
                   [] d = "5" -> 5 [] d = "6" -> 6 [] d = "7" -> 7 [] d = "8" -> 8]

\* load, lines 1249-1275: one row of the placement, from its k-th character on,
\* as the set of <<pos, letter>> it adds
RECURSIVE load_row(_, _, _, _)
load_row(row_char, k, x, y) ==
    IF k > Len(row_char) THEN {}
    ELSE LET s == row_char[k]
         IN IF s \in PieceLetters
            THEN {<<y * 8 + x, s>>} \cup load_row(row_char, k + 1, x + 1, y)
            ELSE load_row(row_char, k + 1, x + DigitValue[s] - 1 + 1, y)

\* load, lines 1243-1277: the pieces of the placement on the cleared board.
\* fen_rows.reverse(): row y of the board is rows[Len(rows) - y]
load_pieces(self, rows) ==
    LET placed == UNION {load_row(rows[Len(rows) - y], 1, 0, y) :
                             y \in 0..(Len(rows) - 1)}
        on(letter) == {pl[1] : pl \in {q \in placed : q[2] = letter}}
    IN [self EXCEPT
          !.black_pawns = on("p"), !.black_knights = on("n"),
          !.black_bishops = on("b"), !.black_rooks = on("r"),
          !.black_queens = on("q"), !.black_kings = on("k"),
          !.white_pawns = on("P"), !.white_knights = on("N"),
          !.white_bishops = on("B"), !.white_rooks = on("R"),
          !.white_queens = on("Q"), !.white_kings = on("K")]

\* load, lines 1287-1302: the n-th character of the castling field grants its
\* right when king and rook stand on their home squares
load_castling_rights(self, fen) ==
    LET nth(n) == IF n <= Len(fen.castling) THEN fen.castling[n] ELSE "-"
    IN IF fen.len >= 3
       THEN << nth(1) = "K" /\ self.white_kings \cap PIECE(4) # {}
                            /\ self.white_rooks \cap PIECE(7) # {},
               nth(2) = "Q" /\ self.white_kings \cap PIECE(4) # {}
                            /\ self.white_rooks \cap PIECE(0) # {},
               nth(3) = "k" /\ self.black_kings \cap PIECE(8*7+4) # {}
                            /\ self.black_rooks \cap PIECE(8*7+7) # {},
               nth(4) = "q" /\ self.black_kings \cap PIECE(8*7+4) # {}
                            /\ self.black_rooks \cap PIECE(8*7+0) # {} >>
       ELSE <<FALSE, FALSE, FALSE, FALSE>>

\* load, lines 1279-1322: the fields after the placement
load_fields(self, fen) ==
    [self EXCEPT
       !.whites_turn = IF fen.len >= 2 /\ fen.turn = "b" THEN FALSE ELSE TRUE,
       !.castling_rights = load_castling_rights(self, fen),
       !.en_passant_square =
            IF fen.len >= 4 /\ string_to_square(fen.en_passant) # 64
            THEN PIECE(string_to_square(fen.en_passant)) ELSE {},
       !.halfmove_clock = IF fen.len >= 5 THEN fen.halfmove ELSE 0,
       !.fullmove = IF fen.len >= 6 THEN fen.fullmove ELSE 1,
       !.game_result = "Ongoing"]

\* load. fen is the description split at the spaces: rows (the placement split at
\* "/", rank 8 first, each row a sequence of characters), then the fields that
\* follow it, with len the number of fields given
load(self, fen) ==
    store_position(update_board(load_fields(load_pieces(clear(self), fen.rows), fen)))

\* the description reset loads
StartFen ==
    [rows |-> << <<"r", "n", "b", "q", "k", "b", "n", "r">>,
                 <<"p", "p", "p", "p", "p", "p", "p", "p">>,
                 <<"8">>, <<"8">>, <<"8">>, <<"8">>,
                 <<"P", "P", "P", "P", "P", "P", "P", "P">>,
                 <<"R", "N", "B", "Q", "K", "B", "N", "R">> >>,
     turn |-> "w", castling |-> <<"K", "Q", "k", "q">>, en_passant |-> "-",
     halfmove |-> 0, fullmove |-> 1, len |-> 6]

reset(self) == load(self, StartFen)

-----------------------------------------------------------------------------
(* The games played: how the board is made (new(), reset() or load() of a
   description) and the squares, promotion pieces and number of calls the
   caller draws from. *)

\* 8/8/8/8/8/4k3/4Q3/4K3 b - - 0 1
FenKingTakesQueen ==
    [rows |-> << <<"8">>,
               <<"8">>,
               <<"8">>,
               <<"8">>,
               <<"8">>,
               <<"4", "k", "3">>,
               <<"4", "Q", "3">>,
               <<"4", "K", "3">> >>,
     turn |-> "b", castling |-> <<"-">>, en_passant |-> "-",
     halfmove |-> 0, fullmove |-> 1, len |-> 6]

\* 8/8/8/8/8/4k3/4R3/2K3N1 b - - 0 1
FenKingTakesRook ==
    [rows |-> << <<"8">>,
               <<"8">>,
               <<"8">>,
               <<"8">>,
               <<"8">>,
               <<"4", "k", "3">>,
               <<"4", "R", "3">>,
               <<"2", "K", "3", "N", "1">> >>,
     turn |-> "b", castling |-> <<"-">>, en_passant |-> "-",
     halfmove |-> 0, fullmove |-> 1, len |-> 6]

\* 4k3/8/4K3/8/8/Q7/8/8 w - - 0 1
FenQueenMate ==
    [rows |-> << <<"4", "k", "3">>,
               <<"8">>,
               <<"4", "K", "3">>,
               <<"8">>,
               <<"8">>,
               <<"Q", "7">>,
               <<"8">>,
               <<"8">> >>,
     turn |-> "w", castling |-> <<"-">>, en_passant |-> "-",
     halfmove |-> 0, fullmove |-> 1, len |-> 6]

\* 4k3/8/7B/8/8/8/3K4/2Q5 w - - 0 1
FenStalemateInOne ==
    [rows |-> << <<"4", "k", "3">>,
               <<"8">>,
               <<"7", "B">>,
               <<"8">>,
               <<"8">>,
               <<"8">>,
               <<"3", "K", "4">>,
               <<"2", "Q", "5">> >>,
     turn |-> "w", castling |-> <<"-">>, en_passant |-> "-",
     halfmove |-> 0, fullmove |-> 1, len |-> 6]

\* r3k2r/pppp1ppp/4p2b/8/8/B2P4/PPP1PPPP/R3K2R w KQkq - 0 1
FenCastling ==
    [rows |-> << <<"r", "3", "k", "2", "r">>,
               <<"p", "p", "p", "p", "1", "p", "p", "p">>,
               <<"4", "p", "2", "b">>,
               <<"8">>,
               <<"8">>,
               <<"B", "2", "P", "4">>,
               <<"P", "P", "P", "1", "P", "P", "P", "P">>,
               <<"R", "3", "K", "2", "R">> >>,
     turn |-> "w", castling |-> <<"K", "Q", "k", "q">>, en_passant |-> "-",
     halfmove |-> 0, fullmove |-> 1, len |-> 6]

\* 1k3rn1/5P2/8/8/8/8/8/4K2R w K - 0 1
FenPromotionAndCastling ==
    [rows |-> << <<"1", "k", "3", "r", "n", "1">>,
               <<"5", "P", "2">>,
               <<"8">>,
               <<"8">>,
               <<"8">>,
               <<"8">>,
               <<"8">>,
               <<"4", "K", "2", "R">> >>,
     turn |-> "w", castling |-> <<"K">>, en_passant |-> "-",
     halfmove |-> 0, fullmove |-> 1, len |-> 6]

\* 4k3/8/8/8/8/8/p7/4K3 b - - 0 1
FenBlackPromotion ==
    [rows |-> << <<"4", "k", "3">>,
               <<"8">>,
               <<"8">>,
               <<"8">>,
               <<"8">>,
               <<"8">>,
               <<"p", "7">>,
               <<"4", "K", "3">> >>,
     turn |-> "b", castling |-> <<"-">>, en_passant |-> "-",
     halfmove |-> 0, fullmove |-> 1, len |-> 6]

\* 4k2r/8/8/8/8/8/1B6/4K3 w --k- - 5 1
FenRookTakenAtHome ==
    [rows |-> << <<"4", "k", "2", "r">>,
               <<"8">>,
               <<"8">>,
               <<"8">>,
               <<"8">>,
               <<"8">>,
               <<"1", "B", "6">>,
               <<"4", "K", "3">> >>,
     turn |-> "w", castling |-> <<"-", "-", "k", "-">>, en_passant |-> "-",
     halfmove |-> 5, fullmove |-> 1, len |-> 6]

\* 4k2r/7K/8/8/8/8/8/8 b --k- - 0 1
FenCastlingBesideKing ==
    [rows |-> << <<"4", "k", "2", "r">>,
               <<"7", "K">>,
               <<"8">>,
               <<"8">>,
               <<"8">>,
               <<"8">>,
               <<"8">>,
               <<"8">> >>,
     turn |-> "b", castling |-> <<"-", "-", "k", "-">>, en_passant |-> "-",
     halfmove |-> 0, fullmove |-> 1, len |-> 6]

\* 4k3/8/8/3pP3/8/8/8/4K3 w - d6 0 1
FenEnPassantLoaded ==
    [rows |-> << <<"4", "k", "3">>,
               <<"8">>,
               <<"8">>,
               <<"3", "p", "P", "3">>,
               <<"8">>,
               <<"8">>,
               <<"8">>,
               <<"4", "K", "3">> >>,
     turn |-> "w", castling |-> <<"-">>, en_passant |-> "D6",
     halfmove |-> 0, fullmove |-> 1, len |-> 6]

\* 4k3/8/8/8/4p3/8/3P4/4K3 w - - 0 1
FenEnPassantPlayed ==
    [rows |-> << <<"4", "k", "3">>,
               <<"8">>,
               <<"8">>,
               <<"8">>,
               <<"4", "p", "3">>,
               <<"8">>,
               <<"3", "P", "4">>,
               <<"4", "K", "3">> >>,
     turn |-> "w", castling |-> <<"-">>, en_passant |-> "-",
     halfmove |-> 0, fullmove |-> 1, len |-> 6]

\* 4k3/8/8/8/8/8/8/4K3 w - - 98 70
FenFiftyMoves ==
    [rows |-> << <<"4", "k", "3">>,
               <<"8">>,
               <<"8">>,
               <<"8">>,
               <<"8">>,
               <<"8">>,
               <<"8">>,
               <<"4", "K", "3">> >>,
     turn |-> "w", castling |-> <<"-">>, en_passant |-> "-",
     halfmove |-> 98, fullmove |-> 70, len |-> 6]

\* 4k3/3ppp2/8/8/8/8/8/R3K3 w - - 99 80
FenMateOnHundred ==
    [rows |-> << <<"4", "k", "3">>,
               <<"3", "p", "p", "p", "2">>,
               <<"8">>,
               <<"8">>,
               <<"8">>,
               <<"8">>,
               <<"8">>,
               <<"R", "3", "K", "3">> >>,
     turn |-> "w", castling |-> <<"-">>, en_passant |-> "-",
     halfmove |-> 99, fullmove |-> 80, len |-> 6]

\* 8/8/8/4k3/3Pp3/8/8/4K3 b - d3 0 1
FenEnPassantOutOfCheck ==
    [rows |-> << <<"8">>,
               <<"8">>,
               <<"8">>,
               <<"4", "k", "3">>,
               <<"3", "P", "p", "3">>,
               <<"8">>,
               <<"8">>,
               <<"4", "K", "3">> >>,
     turn |-> "b", castling |-> <<"-">>, en_passant |-> "D3",
     halfmove |-> 0, fullmove |-> 1, len |-> 6]

\* 4k3/8/8/8/8/4n3/r7/5K2 w - - 0 1
FenMoverLeftWithoutMoves ==
    [rows |-> << <<"4", "k", "3">>,
               <<"8">>,
               <<"8">>,
               <<"8">>,
               <<"8">>,
               <<"4", "n", "3">>,
               <<"r", "7">>,
               <<"5", "K", "2">> >>,
     turn |-> "w", castling |-> <<"-">>, en_passant |-> "-",
     halfmove |-> 0, fullmove |-> 1, len |-> 6]

\* 4k3/8/8/8/8/8/8/4K3 w - - 0 1
FenBareKings ==
    [rows |-> << <<"4", "k", "3">>,
               <<"8">>,
               <<"8">>,
               <<"8">>,
               <<"8">>,
               <<"8">>,
               <<"8">>,
               <<"4", "K", "3">> >>,
     turn |-> "w", castling |-> <<"-">>, en_passant |-> "-",
     halfmove |-> 0, fullmove |-> 1, len |-> 6]

sq(name) == string_to_square(name)

mv(a, b) == <<sq(a), sq(b)>>

\* the string_to_square of a text that names no square
NoSquare == 64

\* calls that complete a move, per game
MaxCalls == 2

\* calls that complete a move in the games that repeat positions
RepetitionCalls == 8

\* surrender and draw calls, per game
MaxResign == 1

\* calls that complete a move in the game that hunts the king
HuntCalls == 11

\* calls that complete a move in the game in which a king triangulates
TriangleCalls == 9

Games ==
    { [name |-> "king takes a queen the king defends",
       ctor |-> "load", fen |-> FenKingTakesQueen,
       inputs |-> {mv("E3", "E2"), mv("E3", "D4"), mv("E1", "E2"), mv("E1", "D1"), <<NoSquare, 0>>},
       promos |-> {}, calls |-> MaxCalls, resign |-> MaxResign],
      [name |-> "king takes a rook the knight defends",
       ctor |-> "load", fen |-> FenKingTakesRook,
       inputs |-> {mv("E3", "E2"), mv("E3", "F4"), mv("G1", "E2"), mv("C1", "D1")},
       promos |-> {}, calls |-> MaxCalls, resign |-> 0],
      [name |-> "queen mates next to the king",
       ctor |-> "load", fen |-> FenQueenMate,
       inputs |-> {mv("A3", "E7"), mv("A3", "A8"), mv("E8", "E7"), mv("E8", "D8"), mv("E6", "E7")},
       promos |-> {}, calls |-> MaxCalls, resign |-> 0],
      [name |-> "stalemate in one",
       ctor |-> "load", fen |-> FenStalemateInOne,
       inputs |-> {mv("C1", "C7"), mv("C1", "C6"), mv("E8", "D8"), mv("E8", "E7"), mv("D2", "E2")},
       promos |-> {}, calls |-> MaxCalls, resign |-> 0],
      [name |-> "castling",
       ctor |-> "load", fen |-> FenCastling,
       inputs |-> {mv("E1", "C1"), mv("E1", "G1"), mv("E8", "G8"), mv("E8", "C8"), mv("A3", "B4"), mv("H6", "G5"), mv("H1", "G1"), mv("H8", "G8"), mv("A8", "B8")},
       promos |-> {}, calls |-> MaxCalls, resign |-> 0],
      [name |-> "promotion and castling",
       ctor |-> "load", fen |-> FenPromotionAndCastling,
       inputs |-> {mv("F7", "G8"), mv("E1", "G1"), mv("F8", "F1"), mv("B8", "B7")},
       promos |-> {"WhiteQueen", "BlackQueen", "WhiteKing"}, calls |-> MaxCalls, resign |-> 0],
      [name |-> "black promotion",
       ctor |-> "load", fen |-> FenBlackPromotion,
       inputs |-> {mv("A2", "A1"), mv("E1", "E2"), mv("E8", "E7")},
       promos |-> {"BlackRook", "BlackKnight", "BlackPawn", "WhiteQueen"}, calls |-> MaxCalls, resign |-> 0],
      [name |-> "rook taken at home",
       ctor |-> "load", fen |-> FenRookTakenAtHome,
       inputs |-> {mv("B2", "H8"), mv("B2", "C3"), mv("E8", "G8"), mv("E8", "E7"), mv("E1", "E2")},
       promos |-> {}, calls |-> MaxCalls, resign |-> 0],
      [name |-> "castling beside the enemy king",
       ctor |-> "load", fen |-> FenCastlingBesideKing,
       inputs |-> {mv("E8", "G8"), mv("E8", "D8"), mv("H7", "G6"), mv("H7", "H8")},
       promos |-> {}, calls |-> MaxCalls, resign |-> 0],
      [name |-> "en passant target loaded",
       ctor |-> "load", fen |-> FenEnPassantLoaded,
       inputs |-> {mv("E5", "D6"), mv("E5", "E6"), mv("E5", "F6"), mv("E8", "E7")},
       promos |-> {}, calls |-> MaxCalls, resign |-> 0],
      [name |-> "en passant target played",
       ctor |-> "load", fen |-> FenEnPassantPlayed,
       inputs |-> {mv("D2", "D4"), mv("D2", "D3"), mv("E4", "D3"), mv("E4", "F3"), mv("E8", "E7"), mv("E1", "E2")},
       promos |-> {}, calls |-> MaxCalls + 2, resign |-> 0],
      [name |-> "fifty moves",
       ctor |-> "load", fen |-> FenFiftyMoves,
       inputs |-> {mv("E1", "E2"), mv("E1", "D1"), mv("E8", "E7"), mv("E8", "D8"), mv("E2", "E3")},
       promos |-> {}, calls |-> MaxCalls, resign |-> MaxResign],
      [name |-> "mate on the hundredth half-move",
       ctor |-> "load", fen |-> FenMateOnHundred,
       inputs |-> {mv("A1", "A8"), mv("A1", "A7"), mv("E8", "D8"), mv("E7", "E6")},
       promos |-> {}, calls |-> MaxCalls, resign |-> 0],
      [name |-> "knights out and back after new",
       ctor |-> "new", fen |-> StartFen,
       inputs |-> {mv("G1", "F3"), mv("F3", "G1"), mv("G8", "F6"), mv("F6", "G8")},
       promos |-> {}, calls |-> RepetitionCalls, resign |-> 0],
      [name |-> "queen and knight hunt the king after new",
       ctor |-> "new", fen |-> StartFen,
       inputs |-> {mv("E2", "E4"), mv("D1", "H5"), mv("G1", "F3"), mv("F3", "G5"), mv("H5", "F7"), mv("G5", "F7"), mv("A7", "A6"), mv("A6", "A5"), mv("A5", "A4"), mv("A4", "A3"), mv("E8", "F7")},
       promos |-> {}, calls |-> HuntCalls, resign |-> 0],
      [name |-> "knights out and back after reset",
       ctor |-> "reset", fen |-> StartFen,
       inputs |-> {mv("G1", "F3"), mv("F3", "G1"), mv("G8", "F6"), mv("F6", "G8")},
       promos |-> {}, calls |-> RepetitionCalls, resign |-> 0],
      [name |-> "en passant takes the checking pawn",
       ctor |-> "load", fen |-> FenEnPassantOutOfCheck,
       inputs |-> {mv("E4", "D3"), mv("E4", "E3"), mv("E5", "D4"), mv("E1", "E2")},
       promos |-> {}, calls |-> MaxCalls, resign |-> 0],
      [name |-> "mover left without moves",
       ctor |-> "load", fen |-> FenMoverLeftWithoutMoves,
       inputs |-> {mv("F1", "E1"), mv("F1", "G1"), mv("E8", "E7"), mv("A2", "A1")},
       promos |-> {}, calls |-> MaxCalls, resign |-> 0],
      [name |-> "king triangulates",
       ctor |-> "load", fen |-> FenBareKings,
       inputs |-> {mv("E1", "D1"), mv("D1", "D2"), mv("D2", "E1"), mv("D1", "E1"), mv("E8", "E7"), mv("E7", "E8")},
       promos |-> {}, calls |-> TriangleCalls, resign |-> 0],
      [name |-> "kings out and back after load",
       ctor |-> "load", fen |-> FenBareKings,
       inputs |-> {mv("E1", "E2"), mv("E2", "E1"), mv("E8", "E7"), mv("E7", "E8")},
       promos |-> {}, calls |-> RepetitionCalls, resign |-> 0] }

start_of(g) ==
    IF g.ctor = "new" THEN new
    ELSE load(new, IF g.ctor = "reset" THEN StartFen ELSE g.fen)

Init ==
    /\ game \in Games
    /\ chess = start_of(game)
    /\ prev = chess
    /\ call = [op |-> game.ctor, from |-> NoSquare, to |-> NoSquare,
               piece |-> "Empty", ret |-> "Ok", pending |-> <<>>]
    /\ ncalls = [moves |-> 0, resigns |-> 0]

\* a panic ends the run
Running == call.ret # "Panic"

\* the promoting move the call before this one left without its piece: <<from, to>>
\* when that call was a move_piece that returned Ok(false)
Pending ==
    IF call.op = "move_piece" /\ call.ret = "Ok_false"
    THEN <<call.from, call.to>> ELSE <<>>

\* the caller makes a call that returned r; calls that return Err are not counted
Called(op, from, to, piece, r) ==
    /\ Running
    /\ r.ret = "Err" \/ ncalls.moves < game.calls
    /\ chess' = r.self
    /\ call' = [op |-> op, from |-> from, to |-> to, piece |-> piece, ret |-> r.ret,
                pending |-> Pending]
    /\ ncalls' = IF r.ret = "Err" THEN ncalls ELSE [ncalls EXCEPT !.moves = @ + 1]
    /\ prev' = chess
    /\ UNCHANGED game

MovePiece ==
    \E ft \in game.inputs :
        Called("move_piece", ft[1], ft[2], "Empty", move_piece(chess, ft[1], ft[2]))

HandlePromotion ==
    \E ft \in game.inputs, pt \in game.promos :
        Called("handle_promotion", ft[1], ft[2], pt,
               handle_promotion(chess, ft[1], ft[2], pt))

WhiteSurrender ==
    /\ Running
    /\ ncalls.resigns < game.resign
    /\ chess' = white_surrender(chess)
    /\ call' = [op |-> "white_surrender", from |-> NoSquare, to |-> NoSquare,
                piece |-> "Empty", ret |-> "Ok", pending |-> Pending]
    /\ ncalls' = [ncalls EXCEPT !.resigns = @ + 1]
    /\ prev' = chess
    /\ UNCHANGED game

BlackSurrender ==
    /\ Running
    /\ ncalls.resigns < game.resign
    /\ chess' = black_surrender(chess)
    /\ call' = [op |-> "black_surrender", from |-> NoSquare, to |-> NoSquare,
                piece |-> "Empty", ret |-> "Ok", pending |-> Pending]
    /\ ncalls' = [ncalls EXCEPT !.resigns = @ + 1]
    /\ prev' = chess
    /\ UNCHANGED game

MutualDraw ==
    /\ Running
    /\ ncalls.resigns < game.resign
    /\ chess' = mutual_draw(chess)
    /\ call' = [op |-> "mutual_draw", from |-> NoSquare, to |-> NoSquare,
                piece |-> "Empty", ret |-> "Ok", pending |-> Pending]
    /\ ncalls' = [ncalls EXCEPT !.resigns = @ + 1]
    /\ prev' = chess
    /\ UNCHANGED game

Next ==
    \/ MovePiece
    \/ HandlePromotion
    \/ WhiteSurrender
    \/ BlackSurrender
    \/ MutualDraw

Spec == Init /\ [][Next]_vars

-----------------------------------------------------------------------------
(* The rules of chess the properties are stated with. The position is what the
   twelve piece boards hold; nothing here reads the derived boards. *)

Occupant(self, i) ==
    IF i \in self.white_pawns THEN "WhitePawn"
    ELSE IF i \in self.black_pawns THEN "BlackPawn"
    ELSE IF i \in self.white_knights THEN "WhiteKnight"
    ELSE IF i \in self.black_knights THEN "BlackKnight"
    ELSE IF i \in self.white_bishops THEN "WhiteBishop"
    ELSE IF i \in self.black_bishops THEN "BlackBishop"
    ELSE IF i \in self.white_rooks THEN "WhiteRook"
    ELSE IF i \in self.black_rooks THEN "BlackRook"
    ELSE IF i \in self.white_queens THEN "WhiteQueen"
    ELSE IF i \in self.black_queens THEN "BlackQueen"
    ELSE IF i \in self.white_kings THEN "WhiteKing"
    ELSE IF i \in self.black_kings THEN "BlackKing"
    ELSE "Empty"

Occupied(self) ==
    self.white_pawns \cup self.white_knights \cup self.white_bishops
    \cup self.white_rooks \cup self.white_queens \cup self.white_kings
    \cup self.black_pawns \cup self.black_knights \cup self.black_bishops
    \cup self.black_rooks \cup self.black_queens \cup self.black_kings

PiecesOf(self, white) ==
    {p \in Occupied(self) : is_white(Occupant(self, p)) = white}

Rank(i) == i \div 8

File(i) == i % 8

Abs(x) == IF x < 0 THEN -x ELSE x

Sgn(x) == IF x < 0 THEN -1 ELSE IF x > 0 THEN 1 ELSE 0

\* the squares strictly between p and q, which share a rank, file or diagonal
Between(p, q) ==
    LET dr == Rank(q) - Rank(p)
        df == File(q) - File(p)
        n == IF Abs(dr) > Abs(df) THEN Abs(dr) ELSE Abs(df)
    IN {(Rank(p) + k * Sgn(dr)) * 8 + File(p) + k * Sgn(df) : k \in 1..(n - 1)}

\* the piece on p attacks the square q
Reaches(self, p, q) ==
    LET t == Occupant(self, p)
        dr == Rank(q) - Rank(p)
        df == File(q) - File(p)
        diagonal == Abs(dr) = Abs(df) /\ dr # 0
        straight == (dr = 0) # (df = 0)
        open == Between(p, q) \cap Occupied(self) = {}
    IN CASE t = "WhitePawn" -> dr = 1 /\ Abs(df) = 1
         [] t = "BlackPawn" -> dr = -1 /\ Abs(df) = 1
         [] t \in {"WhiteKnight", "BlackKnight"} -> {Abs(dr), Abs(df)} = {1, 2}
         [] t \in {"WhiteKing", "BlackKing"} -> p # q /\ Abs(dr) <= 1 /\ Abs(df) <= 1
         [] t \in {"WhiteBishop", "BlackBishop"} -> diagonal /\ open
         [] t \in {"WhiteRook", "BlackRook"} -> straight /\ open
         [] t \in {"WhiteQueen", "BlackQueen"} -> (diagonal \/ straight) /\ open
         [] OTHER -> FALSE

\* some piece of the colour attacks the square q
Attacked(self, by_white, q) ==
    \E p \in PiecesOf(self, by_white) : Reaches(self, p, q)

\* the king of the colour is attacked
KingAttacked(self, white) ==
    \E k \in (IF white THEN self.white_kings ELSE self.black_kings) :
        Attacked(self, ~white, k)

\* the piece boards once the piece on `from` has gone to `to`, an en passant
\* capture taking the pawn behind the target
Played(self, from, to) ==
    LET t == Occupant(self, from)
        moved == update_board_after_move(self, t, from, to)
    IN IF t = "WhitePawn" /\ PIECE(to) = self.en_passant_square
       THEN [moved EXCEPT !.black_pawns = @ \ PIECE(to - 8)]
       ELSE IF t = "BlackPawn" /\ PIECE(to) = self.en_passant_square
       THEN [moved EXCEPT !.white_pawns = @ \ PIECE(to + 8)]
       ELSE moved

\* the four castlings: the right, the squares of king and rook, the squares the
\* king crosses and lands on, and the squares between king and rook
Castlings ==
    { [right |-> 1, white |-> TRUE, king |-> 4, rook |-> 7, cross |-> 5, land |-> 6,
       between |-> {5, 6}],
      [right |-> 2, white |-> TRUE, king |-> 4, rook |-> 0, cross |-> 3, land |-> 2,
       between |-> {1, 2, 3}],
      [right |-> 3, white |-> FALSE, king |-> 60, rook |-> 63, cross |-> 61,
       land |-> 62, between |-> {61, 62}],
      [right |-> 4, white |-> FALSE, king |-> 60, rook |-> 56, cross |-> 59,
       land |-> 58, between |-> {57, 58, 59}] }

WinOf(white) == IF white THEN "White" ELSE "Black"

PawnOf(white) == IF white THEN "WhitePawn" ELSE "BlackPawn"

RookOf(white) == IF white THEN "WhiteRook" ELSE "BlackRook"

KingOf(white) == IF white THEN "WhiteKing" ELSE "BlackKing"

\* the square of the pawn an en passant capture on `to` takes
Behind(white, to) == IF white THEN to - 8 ELSE to + 8

\* the right is held, the squares between king and rook are empty, and the king's
\* square, the square it crosses and the square it lands on are not attacked
CastlingAllowed(self, c) ==
    /\ self.castling_rights[c.right]
    /\ Occupied(self) \cap c.between = {}
    /\ \A s \in {c.king, c.cross, c.land} : ~Attacked(self, ~c.white, s)

\* where the piece on p can go by the way it moves, its own king set aside
PseudoDestinations(self, p) ==
    LET t == Occupant(self, p)
        w == is_white(t)
        one == IF w THEN p + 8 ELSE p - 8
        two == IF w THEN p + 16 ELSE p - 16
    IN IF is_pawn(t)
       THEN {d \in Bits \ Occupied(self) : d = one}
            \cup {d \in Bits \ Occupied(self) :
                    /\ d = two
                    /\ Rank(p) = (IF w THEN 1 ELSE 6)
                    /\ one \notin Occupied(self)}
            \cup {d \in Bits :
                    /\ Reaches(self, p, d)
                    /\ \/ d \in PiecesOf(self, ~w)
                       \/ /\ PIECE(d) = self.en_passant_square
                          /\ d \notin Occupied(self)
                          /\ Occupant(self, Behind(w, d)) = PawnOf(~w)}
       ELSE {d \in Bits \ PiecesOf(self, w) : Reaches(self, p, d)}

\* the destinations of the piece on p that do not leave its own king attacked
LegalDestinations(self, p) ==
    {d \in PseudoDestinations(self, p) :
        ~KingAttacked(Played(self, p, d), is_white(Occupant(self, p)))}
    \cup {c.land : c \in {x \in Castlings :
                            /\ x.king = p
                            /\ Occupant(self, p) = KingOf(x.white)
                            /\ Occupant(self, x.rook) = RookOf(x.white)
                            /\ CastlingAllowed(self, x)}}

NoLegalDestination(self, white) ==
    \A p \in PiecesOf(self, white) : LegalDestinations(self, p) = {}

\* each side has its king
BothKings(self) ==
    Cardinality(self.white_kings) = 1 /\ Cardinality(self.black_kings) = 1

\* the last call completed a move
Moved == call.op \in {"move_piece", "handle_promotion"} /\ call.ret = "Ok_true"

\* the last call was move_piece(from, to) with squares of the board
MoveCalled == call.op = "move_piece" /\ InBounds(call.from) /\ InBounds(call.to)

-----------------------------------------------------------------------------
(* Properties *)

\* C1: after a move_piece or handle_promotion call that returned Ok(true), the
\* king of the side that just moved is not attacked by the opponent.
C1_MoverKingNotAttacked ==
    Moved => ~KingAttacked(chess, prev.whites_turn)

\* C2: when game_result is not Ongoing, move_piece returns Err and leaves the
\* whole ChessBoard as it was.
C2_FinishedGameRejectsMoves ==
    (call.op = "move_piece" /\ prev.game_result # "Ongoing")
        => (call.ret = "Err" /\ chess = prev)

\* a move that get_moves would allow is rejected because the game is finished
C2_Witness ==
    /\ MoveCalled
    /\ prev.game_result # "Ongoing"
    /\ call.to \in get_moves(prev, call.from)
    /\ is_white(Occupant(prev, call.from)) = prev.whites_turn
    /\ call.ret = "Err"
    /\ chess = prev

\* C3: once game_result is White, Black or Draw, no call changes it.
C3_TerminalResultSticky ==
    prev.game_result # "Ongoing" => chess.game_result = prev.game_result

\* C4: after a completed move, game_result is the mover's win exactly when the
\* opponent's king is attacked and no opponent piece has a legal destination.
C4_CheckmateExactlyWhenItOccurs ==
    (Moved /\ BothKings(chess)) =>
        ((chess.game_result = WinOf(prev.whites_turn))
            <=> (/\ KingAttacked(chess, ~prev.whites_turn)
                 /\ NoLegalDestination(chess, ~prev.whites_turn)))

\* C5: a completed move that leaves the opponent not attacked and without a
\* legal destination sets game_result to Draw.
C5_StalemateByMoveIsDraw ==
    (/\ Moved
     /\ BothKings(chess)
     /\ ~KingAttacked(chess, ~prev.whites_turn)
     /\ NoLegalDestination(chess, ~prev.whites_turn))
        => chess.game_result = "Draw"

\* C6: with the king on its home square, the castling destination is in the
\* king's legal set exactly when the right is held, the squares between king and
\* rook are empty and the king's square, the square it crosses and the square it
\* lands on are not attacked; and move_piece accepts the castling exactly then.
C6_CastlingLegality ==
    \A c \in Castlings :
        /\ (Running /\ Occupant(chess, c.king) = KingOf(c.white))
              => ((c.land \in get_moves(chess, c.king)) <=> CastlingAllowed(chess, c))
        /\ (/\ MoveCalled
            /\ call.from = c.king
            /\ call.to = c.land
            /\ Occupant(prev, c.king) = KingOf(c.white)
            /\ prev.whites_turn = c.white
            /\ prev.game_result = "Ongoing")
              => ((call.ret # "Err") <=> CastlingAllowed(prev, c))

\* the last call moved a pawn of the side to move diagonally onto the en passant
\* target, behind which an enemy pawn stands, without exposing the own king
EnPassantCaptureCalled ==
    /\ MoveCalled
    /\ prev.game_result = "Ongoing"
    /\ Occupant(prev, call.from) = PawnOf(prev.whites_turn)
    /\ Reaches(prev, call.from, call.to)
    /\ PIECE(call.to) = prev.en_passant_square
    /\ Occupant(prev, call.to) = "Empty"
    /\ Occupant(prev, Behind(prev.whites_turn, call.to)) = PawnOf(~prev.whites_turn)
    /\ ~KingAttacked(Played(prev, call.from, call.to), prev.whites_turn)

\* C7: an en passant capture succeeds, the capturing pawn stands on the target
\* and the square of the captured pawn is empty.
C7_EnPassantCaptureSucceeds ==
    EnPassantCaptureCalled =>
        /\ call.ret = "Ok_true"
        /\ Occupant(chess, call.to) = PawnOf(prev.whites_turn)
        /\ Occupant(chess, Behind(prev.whites_turn, call.to)) = "Empty"

\* the last call moved a pawn diagonally forward to an empty square
DiagonalPawnMoveToEmpty ==
    /\ MoveCalled
    /\ is_pawn(Occupant(prev, call.from))
    /\ Reaches(prev, call.from, call.to)
    /\ Occupant(prev, call.to) = "Empty"

\* C8: a diagonal pawn move to an empty square that is not the en passant target
\* returns Err and leaves the ChessBoard, the pawn beside it included, as it was.
C8_EnPassantOnlyOnTarget ==
    (DiagonalPawnMoveToEmpty /\ PIECE(call.to) # prev.en_passant_square)
        => (call.ret = "Err" /\ chess = prev)

\* the side to move tries to take, as if en passant, an enemy pawn whose double
\* step is no longer the last move, and is refused
C8_Witness ==
    /\ DiagonalPawnMoveToEmpty
    /\ prev.game_result = "Ongoing"
    /\ Occupant(prev, call.from) = PawnOf(prev.whites_turn)
    /\ Occupant(prev, Behind(prev.whites_turn, call.to)) = PawnOf(~prev.whites_turn)
    /\ prev.en_passant_square = {}
    /\ call.ret = "Err"
    /\ chess = prev

History ==
    IF game.ctor = "new" THEN <<snapshot(new)>> \o chess.positions
    ELSE chess.positions

Occurrences ==
    Cardinality({i \in 1..Len(History) : History[i] = snapshot(chess)})

\* C10: a completed move that produces a position for the third time in the
\* game, the start position counted, sets game_result to Draw.
C10_ThreefoldRepetition ==
    (Moved /\ Occurrences >= 3) => chess.game_result = "Draw"

\* the twelve piece boards
PieceBoards(self) ==
    <<self.white_pawns, self.white_knights, self.white_bishops,
      self.white_rooks, self.white_queens, self.white_kings,
      self.black_pawns, self.black_knights, self.black_bishops,
      self.black_rooks, self.black_queens, self.black_kings>>

\* the number of piece boards that hold square i
Holders(self, i) ==
    Cardinality({k \in 1..12 : i \in PieceBoards(self)[k]})

\* two boards show the same position: piece boards, derived boards, board vector,
\* turn, castling rights, en passant target, clocks and history
SamePosition(a, b) ==
    /\ PieceBoards(a) = PieceBoards(b)
    /\ a.white_pieces = b.white_pieces
    /\ a.black_pieces = b.black_pieces
    /\ a.all_pieces = b.all_pieces
    /\ a.board = b.board
    /\ a.whites_turn = b.whites_turn
    /\ a.castling_rights = b.castling_rights
    /\ a.en_passant_square = b.en_passant_square
    /\ a.halfmove_clock = b.halfmove_clock
    /\ a.fullmove = b.fullmove
    /\ a.positions = b.positions

LastRank(white) == IF white THEN 7 ELSE 0

\* the kinds a pawn of that colour may become
PromotionKinds(white) ==
    IF white THEN {"WhiteQueen", "WhiteRook", "WhiteBishop", "WhiteKnight"}
    ELSE {"BlackQueen", "BlackRook", "BlackBishop", "BlackKnight"}

\* the squares of the last call are a legal move of a pawn of the side to move
\* to its last rank, in a game that was going on
PromotingMove ==
    /\ InBounds(call.from) /\ InBounds(call.to)
    /\ prev.game_result = "Ongoing"
    /\ BothKings(prev)
    /\ Occupant(prev, call.from) = PawnOf(prev.whites_turn)
    /\ Rank(call.to) = LastRank(prev.whites_turn)
    /\ call.to \in LegalDestinations(prev, call.from)

\* C11: move_piece of a pawn to its last rank with no promotion piece given
\* returns Ok(false) and leaves the position exactly as it was.
C11_UnspecifiedPromotionLeavesPosition ==
    (call.op = "move_piece" /\ PromotingMove /\ prev.promotion_piece = "Empty")
        => (call.ret = "Ok_false" /\ SamePosition(chess, prev))

\* C12: after move_piece(from, to) returned Ok(false), handle_promotion(from, to,
\* kind) with a queen, rook, bishop or knight of the mover's colour returns
\* Ok(true), puts that piece on `to`, empties `from` and passes the turn.
C12_PromotionCompletesPendingMove ==
    (/\ call.op = "handle_promotion"
     /\ call.pending = <<call.from, call.to>>
     /\ call.piece \in PromotionKinds(prev.whites_turn))
        => (/\ call.ret = "Ok_true"
            /\ Occupant(chess, call.to) = call.piece
            /\ Occupant(chess, call.from) = "Empty"
            /\ chess.whites_turn # prev.whites_turn)

\* handle_promotion was called for a legal promoting move with a kind the mover
\* may choose
PromotionCalled ==
    /\ call.op = "handle_promotion"
    /\ PromotingMove
    /\ call.piece \in PromotionKinds(prev.whites_turn)

InvalidKindCalled ==
    /\ call.op = "handle_promotion"
    /\ call.piece \in {"WhiteKing", "BlackKing", "WhitePawn", "BlackPawn"}
                          \cup PromotionKinds(~prev.whites_turn)

\* the last call completed the move of a pawn to its last rank
PawnReachedLastRank ==
    /\ Moved
    /\ InBounds(call.from) /\ InBounds(call.to)
    /\ Occupant(prev, call.from) = PawnOf(prev.whites_turn)
    /\ Rank(call.to) = LastRank(prev.whites_turn)

\* C14: handle_promotion with a king, a pawn or a piece of the wrong colour
\* returns Err and leaves the position alone; no completed move turns a pawn
\* into anything but a queen, rook, bishop or knight of its own colour; and
\* move_piece of a pawn to its last rank returns Ok(false).
C14_InvalidPromotionHasNoEffect ==
    /\ InvalidKindCalled => (call.ret = "Err" /\ SamePosition(chess, prev))
    /\ PawnReachedLastRank
           => Occupant(chess, call.to) \in PromotionKinds(prev.whites_turn)
    /\ (call.op = "move_piece" /\ PromotingMove) => call.ret = "Ok_false"

\* a pawn that reached its last rank became a king
PawnBecameKing ==
    PawnReachedLastRank /\ Occupant(chess, call.to) = KingOf(prev.whites_turn)

NoPawnBecameKing == ~PawnBecameKing

\* the last call was move_piece, with squares of the board, and returned Err
MoveRejected == MoveCalled /\ call.ret = "Err"

\* C15: whenever move_piece(from, to) with squares in 0..63 returns Err, the
\* piece boards, derived boards, turn, castling rights, en passant target,
\* clocks, history and game_result are all unchanged.
C15_RejectedMoveChangesNothing ==
    MoveRejected
        => (SamePosition(chess, prev) /\ chess.game_result = prev.game_result)

\* a piece of the side not to move was asked to go to a square it reaches, in a
\* game that is going on, and the call was rejected
C15_Witness ==
    /\ MoveRejected
    /\ prev.game_result = "Ongoing"
    /\ call.from \in PiecesOf(prev, ~prev.whites_turn)
    /\ Reaches(prev, call.from, call.to)
    /\ chess = prev

\* C16: in an Ongoing game, move_piece(from, to) with squares in 0..63 is
\* accepted (returns Ok) exactly when `to` is in get_moves_list(from).
C16_MovePieceAgreesWithMovesList ==
    (MoveCalled /\ prev.game_result = "Ongoing")
        => (call.ret \in {"Ok_true", "Ok_false"}
                <=> call.to \in get_moves_list(prev, call.from))

\* the same, leaving out the calls that end in the out-of-bounds access
C16_AgreesUnlessPanic ==
    (MoveCalled /\ prev.game_result = "Ongoing" /\ Running)
        => (call.ret \in {"Ok_true", "Ok_false"}
                <=> call.to \in get_moves_list(prev, call.from))

\* C17: move_piece and handle_promotion with a square of 64 or more return an
\* error and leave the position unchanged, and no call reaches an
\* out-of-bounds table access.
C17_SquaresOutOfRangeRejected ==
    /\ Running
    /\ (/\ call.op \in {"move_piece", "handle_promotion"}
        /\ (~InBounds(call.from) \/ ~InBounds(call.to)))
           => (call.ret = "Err" /\ SamePosition(chess, prev))

\* the union of the six piece boards of a colour
UnionOf(self, white) ==
    IF white
    THEN self.white_pawns \cup self.white_knights \cup self.white_bishops
         \cup self.white_rooks \cup self.white_queens \cup self.white_kings
    ELSE self.black_pawns \cup self.black_knights \cup self.black_bishops
         \cup self.black_rooks \cup self.black_queens \cup self.black_kings

\* C18: after every public operation returns, white_pieces is the union of the
\* six white piece boards, black_pieces the union of the six black ones, and
\* all_pieces the union of the two.
C18_DerivedBoardsConsistent ==
    Running
        => (/\ chess.white_pieces = UnionOf(chess, TRUE)
            /\ chess.black_pieces = UnionOf(chess, FALSE)
            /\ chess.all_pieces = chess.white_pieces \cup chess.black_pieces)

\* the same, for the constructors and the calls that completed a move
C18_ConsistentAfterCompletedCalls ==
    call.ret \in {"Ok", "Ok_true"}
        => (/\ chess.white_pieces = UnionOf(chess, TRUE)
            /\ chess.black_pieces = UnionOf(chess, FALSE)
            /\ chess.all_pieces = chess.white_pieces \cup chess.black_pieces)

\* C19: no square is held by more than one of the twelve piece boards.
C19_OnePiecePerSquare ==
    \A i \in Bits : Holders(chess, i) <= 1

\* a move captured a piece, and the square holds the capturing piece alone
C19_Witness ==
    /\ Moved
    /\ call.to \in PiecesOf(prev, ~prev.whites_turn)
    /\ Occupant(chess, call.to) = Occupant(prev, call.from)
    /\ Holders(chess, call.to) = 1

\* C20: in a game started with new(), after any sequence of move_piece and
\* handle_promotion calls each king board has exactly one bit set.
C20_OneKingEach ==
    game.ctor = "new" => BothKings(chess)

\* the last call was move_piece or handle_promotion and it returned
MoveReturned ==
    call.op \in {"move_piece", "handle_promotion"} /\ Running

\* C21: across move_piece and handle_promotion calls each of the four castling
\* rights, once false, never becomes true again.
C21_CastlingRightsOnlyDecrease ==
    call.op \in {"move_piece", "handle_promotion"}
        => \A k \in 1..4 : chess.castling_rights[k] => prev.castling_rights[k]

\* a right the game started with was lost, and a later move left it lost
C21_Witness ==
    /\ Moved
    /\ \E k \in 1..4 : /\ start_of(game).castling_rights[k]
                       /\ ~prev.castling_rights[k]
                       /\ ~chess.castling_rights[k]

\* the rights other than those in the set ks are as they were before the call
RightsKeptExcept(ks) ==
    \A k \in (1..4) \ ks : chess.castling_rights[k] = prev.castling_rights[k]

\* the rights of a side
RightsOf(white) == IF white THEN {1, 2} ELSE {3, 4}

\* the castlings whose rook the last call moved away from its corner
RookLeftCorner ==
    {c \in Castlings : /\ c.white = prev.whites_turn
                       /\ call.from = c.rook
                       /\ Occupant(prev, call.from) = RookOf(c.white)}

\* C22: after a successful move, a king move has cleared both rights of the
\* moving side; a rook leaving a1, h1, a8 or h8 has cleared exactly the right of
\* its own side and wing; any other move clears nothing; and the rights of the
\* side that did not move are unchanged.
C22_RightsRevokedByOwnKingAndRook ==
    Moved =>
        /\ RightsKeptExcept(RightsOf(prev.whites_turn))
        /\ IF Occupant(prev, call.from) = KingOf(prev.whites_turn)
           THEN \A k \in RightsOf(prev.whites_turn) : ~chess.castling_rights[k]
           ELSE /\ \A c \in RookLeftCorner : ~chess.castling_rights[c.right]
                /\ RightsKeptExcept({c.right : c \in RookLeftCorner})

\* C23: if a castling right is held, that side's king is on its home square and
\* that side's rook is on the home corner of that wing.
C23_HeldRightMeansKingAndRookHome ==
    Running =>
        \A c \in Castlings :
            chess.castling_rights[c.right]
                => /\ Occupant(chess, c.king) = KingOf(c.white)
                   /\ Occupant(chess, c.rook) = RookOf(c.white)

\* a rook was captured on its home corner and its right is still held
RookTakenRightHeld ==
    /\ Moved
    /\ \E c \in Castlings : /\ call.to = c.rook
                            /\ Occupant(prev, c.rook) = RookOf(c.white)
                            /\ c.white # prev.whites_turn
                            /\ chess.castling_rights[c.right]

NoRookTakenRightHeld == ~RookTakenRightHeld

\* the last call moved a pawn of the side to move two ranks from its home rank
DoublePush ==
    /\ Occupant(prev, call.from) = PawnOf(prev.whites_turn)
    /\ Rank(call.from) = (IF prev.whites_turn THEN 1 ELSE 6)
    /\ call.to = (IF prev.whites_turn THEN call.from + 16 ELSE call.from - 16)

\* C24: after every successful move the en passant target is empty, unless the
\* move was a pawn advancing two ranks from its home rank: then it is exactly
\* the square the pawn skipped.
C24_EnPassantTargetLifetime ==
    Moved => chess.en_passant_square =
                 (IF DoublePush THEN {Behind(prev.whites_turn, call.to)} ELSE {})

\* a pawn advanced two ranks and the square it skipped is the target
C24_Witness ==
    /\ Moved
    /\ DoublePush
    /\ chess.en_passant_square = {Behind(prev.whites_turn, call.to)}
    /\ prev.en_passant_square = {}

\* a target was set, and the next move, not a double advance, emptied it
TargetLivedOneMove ==
    Moved /\ ~DoublePush /\ prev.en_passant_square # {} /\ chess.en_passant_square = {}

\* the last call captured: a piece stood on `to`, or it was an en passant capture
Captured ==
    \/ Occupant(prev, call.to) # "Empty"
    \/ /\ Occupant(prev, call.from) = PawnOf(prev.whites_turn)
       /\ PIECE(call.to) = prev.en_passant_square

ClockCounted ==
    /\ Moved
    /\ prev.halfmove_clock > 0
    /\ chess.halfmove_clock = prev.halfmove_clock + 1

\* C26: fullmove increases by exactly one when a move by Black is completed and
\* is unchanged by a completed White move and by a call that returns Err or
\* Ok(false).
C26_FullmoveNumber ==
    MoveReturned => chess.fullmove =
                        (IF Moved /\ ~prev.whites_turn
                         THEN prev.fullmove + 1 ELSE prev.fullmove)

\* the same, leaving out the calls that returned Ok(false)
C26_FullmoveUnlessUnfinished ==
    (MoveReturned /\ call.ret # "Ok_false") =>
        chess.fullmove = (IF Moved /\ ~prev.whites_turn
                          THEN prev.fullmove + 1 ELSE prev.fullmove)

\* the number of legal moves of the side to move, a pawn move onto the last
\* rank counted once for each of the four pieces the pawn may become
LegalMoveCount(self) ==
    LET legal == UNION {{<<p, d>> : d \in LegalDestinations(self, p)} :
                            p \in PiecesOf(self, self.whites_turn)}
        promoting == {pd \in legal :
                        /\ Occupant(self, pd[1]) = PawnOf(self.whites_turn)
                        /\ Rank(pd[2]) = LastRank(self.whites_turn)}
    IN Cardinality(legal) + 3 * Cardinality(promoting)

\* C27: count_moves() equals the number of legal moves of the side to move,
\* every pawn move onto the last rank counted four times; for the standard
\* starting position, built by new() or reset(), it is 20.
C27_CountMovesIsLegalMoveCount ==
    /\ (call.ret \in {"Ok", "Ok_true"} /\ BothKings(chess))
           => count_moves(chess) = LegalMoveCount(chess)
    /\ call.op \in {"new", "reset"} => count_moves(chess) = 20

\* the starting position has 20 moves, by count_moves and by the rules
C27_StartPositionHasTwenty ==
    call.op \in {"new", "reset"}
        => (count_moves(chess) = 20 /\ LegalMoveCount(chess) = 20)

\* C28: after load() player_in_check is true exactly when the king of the side
\* to move is attacked.
C28_LoadReportsCheck ==
    call.op \in {"load", "reset"}
        => (chess.player_in_check <=> KingAttacked(chess, chess.whites_turn))

\* the board mirrored in its ranks
Flip(b) == {8 * (7 - Rank(s)) + File(s) : s \in b}

\* the position with the colours swapped and the ranks flipped
Swapped(self) ==
    [self EXCEPT
        !.white_pawns = Flip(self.black_pawns),
        !.white_knights = Flip(self.black_knights),
        !.white_bishops = Flip(self.black_bishops),
        !.white_rooks = Flip(self.black_rooks),
        !.white_queens = Flip(self.black_queens),
        !.white_kings = Flip(self.black_kings),
        !.black_pawns = Flip(self.white_pawns),
        !.black_knights = Flip(self.white_knights),
        !.black_bishops = Flip(self.white_bishops),
        !.black_rooks = Flip(self.white_rooks),
        !.black_queens = Flip(self.white_queens),
        !.black_kings = Flip(self.white_kings),
        !.white_pieces = Flip(self.black_pieces),
        !.black_pieces = Flip(self.white_pieces),
        !.all_pieces = Flip(self.all_pieces)]

\* C29: in a position with no en passant target, and with no overrides, the
\* attack set computed for White is the rank mirror of the attack set computed
\* for Black in the position with colours swapped and ranks flipped, and the
\* other way round.
C29_AttackColourSymmetry ==
    (call.ret \in {"Ok", "Ok_true"} /\ chess.en_passant_square = {})
        => /\ compute_white_attacks(chess, None, None)
                = Flip(compute_black_attacks(Swapped(chess), None, None))
           /\ compute_black_attacks(chess, None, None)
                = Flip(compute_white_attacks(Swapped(chess), None, None))

\* the same, for the positions whose kings stand off the a and h files
C29_SymmetryOffTheEdgeFiles ==
    (/\ call.ret \in {"Ok", "Ok_true"}
     /\ chess.en_passant_square = {}
     /\ \A k \in chess.white_kings \cup chess.black_kings : File(k) \in 1..6)
        => /\ compute_white_attacks(chess, None, None)
                = Flip(compute_black_attacks(Swapped(chess), None, None))
           /\ compute_black_attacks(chess, None, None)
                = Flip(compute_white_attacks(Swapped(chess), None, None))

\* the castling the last call played, if it played one
CastlingPlayed ==
    {c \in Castlings : /\ Moved
                       /\ Occupant(prev, call.from) = KingOf(c.white)
                       /\ call.from = c.king
                       /\ call.to = c.land}

\* the number of pieces of a side
Material(self, white) == Cardinality(PiecesOf(self, white))

\* C30: a castling king move takes the rook of that wing from its home corner
\* to the square the king crossed and changes nothing else on the board; no move
\* adds a piece to either side, and no move removes a piece except by a capture
\* on the destination square or by en passant.
C30_CastlingAndMaterial ==
    /\ \A c \in CastlingPlayed :
          /\ Occupant(prev, c.rook) = RookOf(c.white)
          /\ Occupant(chess, c.land) = KingOf(c.white)
          /\ Occupant(chess, c.cross) = RookOf(c.white)
          /\ \A s \in Bits \ {c.land, c.cross} :
                Occupant(chess, s) = (IF s \in {c.king, c.rook} THEN "Empty"
                                      ELSE Occupant(prev, s))
    /\ Moved =>
          /\ Material(chess, prev.whites_turn) = Material(prev, prev.whites_turn)
          /\ Material(chess, ~prev.whites_turn)
                = Material(prev, ~prev.whites_turn) - (IF Captured THEN 1 ELSE 0)

\* the same, for the castlings played with the rook on its corner
C30_CastlingWithRookAtHome ==
    \A c \in CastlingPlayed :
        Occupant(prev, c.rook) = RookOf(c.white)
            => /\ Occupant(chess, c.land) = KingOf(c.white)
               /\ Occupant(chess, c.cross) = RookOf(c.white)
               /\ \A s \in Bits \ {c.land, c.cross} :
                     Occupant(chess, s) = (IF s \in {c.king, c.rook} THEN "Empty"
                                           ELSE Occupant(prev, s))

EnPassantCandidates(self) ==
    {pd \in PiecesOf(self, self.whites_turn) \X self.en_passant_square :
        /\ Occupant(self, pd[1]) = PawnOf(self.whites_turn)
        /\ pd[2] \in PseudoDestinations(self, pd[1])
        /\ pd[2] \notin Occupied(self)}

\* C32: an en passant candidate of a white or a black pawn is in the legal set
\* exactly when the mover's king is not attacked in the position where the pawn
\* stands on the target square and the captured pawn is gone.
C32_EnPassantLegality ==
    (call.ret \in {"Ok", "Ok_true"} /\ BothKings(chess))
        => \A pd \in EnPassantCandidates(chess) :
              pd[2] \in get_moves(chess, pd[1])
                  <=> ~KingAttacked(Played(chess, pd[1], pd[2]), chess.whites_turn)

\* the same, for the candidates of white pawns
C32_WhiteEnPassantLegality ==
    (call.ret \in {"Ok", "Ok_true"} /\ BothKings(chess) /\ chess.whites_turn)
        => \A pd \in EnPassantCandidates(chess) :
              pd[2] \in get_moves(chess, pd[1])
                  <=> ~KingAttacked(Played(chess, pd[1], pd[2]), chess.whites_turn)

\* a white pawn has an en passant candidate
WhiteCandidateSeen ==
    /\ call.ret \in {"Ok", "Ok_true"}
    /\ chess.whites_turn
    /\ EnPassantCandidates(chess) # {}

\* a pawn of the side to move stands where it can capture onto the target
TargetCanBeTaken(self) ==
    \E p \in PiecesOf(self, self.whites_turn), d \in self.en_passant_square :
        /\ Occupant(self, p) = PawnOf(self.whites_turn)
        /\ Reaches(self, p, d)

\* C33: the en passant flag of a history snapshot is 1 exactly when there is an
\* en passant target and a pawn of the side about to move stands where it can
\* capture onto it.
C33_SnapshotEnPassantFlag ==
    (call.ret \in {"Ok", "Ok_true"} /\ Len(chess.positions) > 0 /\ Running
        /\ call.op \in {"load", "reset", "move_piece", "handle_promotion"})
        => (chess.positions[Len(chess.positions)][13] # {}
                <=> TargetCanBeTaken(chess))

\* the squares at king distance 1 from k
Neighbours(k) ==
    {q \in Bits \ {k} : Abs(Rank(q) - Rank(k)) <= 1 /\ Abs(File(q) - File(k)) <= 1}

\* the kings of the position, each with the pieces of its own side
KingInputs(self) ==
    {<<k, self.white_pieces>> : k \in self.white_kings}
        \cup {<<k, self.black_pieces>> : k \in self.black_kings}

\* C34: for a king on any square, compute_king_attacks returns exactly the
\* squares at king distance 1 that its own pieces do not occupy: it never wraps
\* between the a-file and the h-file and never leaves out an adjacent square.
C34_KingAttacks ==
    call.ret \in {"Ok", "Ok_true"}
        => \A ko \in KingInputs(chess) :
              compute_king_attacks({ko[1]}, ko[2]) = Neighbours(ko[1]) \ ko[2]

\* the same, for kings on the files b to g
C34_KingAttacksInnerFiles ==
    call.ret \in {"Ok", "Ok_true"}
        => \A ko \in KingInputs(chess) :
              File(ko[1]) \in 1..6
                  => compute_king_attacks({ko[1]}, ko[2]) = Neighbours(ko[1]) \ ko[2]

\* a king stands on a file b to g with a piece of its own next to it
InnerKingSeen ==
    /\ call.ret \in {"Ok", "Ok_true"}
    /\ \E ko \in KingInputs(chess) :
          File(ko[1]) \in 1..6 /\ Neighbours(ko[1]) \cap ko[2] # {}

\* the squares a slider on s reaches along its four rays (diagonals when diag,
\* rank and file otherwise): the empty squares up to the first occupied square,
\* and that square when an enemy piece stands on it
RayAttacks(s, all_pieces, enemy_pieces, diag) ==
    {q \in Bits \ {s} :
        /\ IF diag THEN Abs(Rank(q) - Rank(s)) = Abs(File(q) - File(s))
                   ELSE Rank(q) = Rank(s) \/ File(q) = File(s)
        /\ Between(s, q) \cap all_pieces = {}
        /\ q \notin all_pieces \/ q \in enemy_pieces}

\* C35: for a slider on any square of the board, with the pieces of the
\* position and either side as the enemy, compute_bishop_attacks and
\* compute_rook_attacks return along each of the four rays exactly the empty
\* squares up to the first occupied square, plus that square iff an enemy piece
\* stands on it.
C35_SlidingAttacks ==
    call.ret \in {"Ok", "Ok_true"}
        => \A s \in Bits :
           \A enemy_pieces \in {chess.white_pieces, chess.black_pieces} :
              /\ compute_bishop_attacks({s}, chess.all_pieces, enemy_pieces)
                    = RayAttacks(s, chess.all_pieces, enemy_pieces, TRUE)
              /\ compute_rook_attacks({s}, chess.all_pieces, enemy_pieces)
                    = RayAttacks(s, chess.all_pieces, enemy_pieces, FALSE)

\* the slider on s has an enemy piece at the end of one ray, which is kept, and
\* a piece of its own side at the end of another, which is not
RayStopsSeen(s, white, diag) ==
    LET own == PiecesOf(chess, white)
        enemy == PiecesOf(chess, ~white)
        attacks == IF diag THEN compute_bishop_attacks({s}, chess.all_pieces, enemy)
                           ELSE compute_rook_attacks({s}, chess.all_pieces, enemy)
        ends == {q \in chess.all_pieces \ {s} :
                    /\ IF diag THEN Abs(Rank(q) - Rank(s)) = Abs(File(q) - File(s))
                               ELSE Rank(q) = Rank(s) \/ File(q) = File(s)
                    /\ Between(s, q) \cap chess.all_pieces = {}}
    IN /\ \E q \in ends \cap enemy : q \in attacks /\ Between(s, q) # {}
       /\ \E q \in ends \cap own : q \notin attacks /\ Between(s, q) # {}

\* after a move a rook or queen has a rank or file ended by an enemy piece and
\* another ended by a piece of its own side, and a bishop or queen has the same
\* on its diagonals
C35_Witness ==
    /\ Moved
    /\ BothKings(chess)
    /\ \E s \in chess.white_rooks \cup chess.black_rooks
                 \cup chess.white_queens \cup chess.black_queens :
          RayStopsSeen(s, s \in chess.white_pieces, FALSE)
    /\ \E s \in chess.white_bishops \cup chess.black_bishops
                 \cup chess.white_queens \cup chess.black_queens :
          RayStopsSeen(s, s \in chess.white_pieces, TRUE)

\* C36: a successful move_piece that changes game_result from Ongoing to Draw
\* leaves a position where the side now to move is not in check and has no
\* legal move, or which has occurred three times, or whose halfmove_clock is at
\* least 100; the mobility of the side that just moved never ends the game.
C36_DrawOnlyForSideToMove ==
    (Moved /\ call.op = "move_piece" /\ BothKings(chess)
        /\ prev.game_result = "Ongoing" /\ chess.game_result = "Draw")
        => \/ /\ ~KingAttacked(chess, chess.whites_turn)
              /\ NoLegalDestination(chess, chess.whites_turn)
           \/ Occurrences >= 3
           \/ chess.halfmove_clock >= 100

\* the same, with the cause the claim excludes: the side that just moved is not
\* in check and has no legal move
C36_DrawCauses ==
    (Moved /\ call.op = "move_piece" /\ BothKings(chess)
        /\ prev.game_result = "Ongoing" /\ chess.game_result = "Draw")
        => \/ /\ ~KingAttacked(chess, chess.whites_turn)
              /\ NoLegalDestination(chess, chess.whites_turn)
           \/ /\ ~KingAttacked(chess, ~chess.whites_turn)
              /\ NoLegalDestination(chess, ~chess.whites_turn)
           \/ is_three_fold_repetition(chess)
           \/ chess.halfmove_clock >= 100

\* the side that was to move in the position recorded as positions[i]: every
\* snapshot after the first is pushed by a completed move, which passes the turn
SnapshotSide(self, i) ==
    IF (Len(self.positions) - i) % 2 = 0 THEN self.whites_turn ELSE ~self.whites_turn

\* the snapshots equal to the last one that were recorded with its side to move
SameSideRepetitions(self) ==
    {i \in 1..Len(self.positions) :
        /\ self.positions[i] = self.positions[Len(self.positions)]
        /\ SnapshotSide(self, i) = self.whites_turn}

\* C37: when a completed move finds the last snapshot three times in the
\* history, three of the equal snapshots were recorded with the same side to
\* move.
C37_RepetitionSameSideToMove ==
    (Moved /\ prev.game_result = "Ongoing" /\ is_three_fold_repetition(chess))
        => Cardinality(SameSideRepetitions(chess)) >= 3

\* a repetition was found whose three snapshots have the same side to move
SameSideRepetitionSeen ==
    /\ Moved /\ prev.game_result = "Ongoing"
    /\ is_three_fold_repetition(chess)
    /\ Cardinality(SameSideRepetitions(chess)) >= 3

=============================================================================
